---- MODULE Spec2Model ----
(***************************************************************************)
(* Cache-coherence protocol of the compose image cache action:             *)
(* processService (per-image processor), run (batch coordinator), the      *)
(* image runtime gateway and the cache store gateway.                      *)
(*                                                                         *)
(* Strings are sequences of tokens.  A token is either a separator         *)
(* character (":", "/", "-", ".") or an atomic run of other characters;    *)
(* digests are spelled out character by character after "sha256", ":".     *)
(***************************************************************************)
EXTENDS Integers, Sequences, FiniteSets, Bags, TLC

(***************************************************************************)
(* Bounds of the model                                                     *)
(***************************************************************************)
\* How many times the registry may move a tag to a new digest during a run.
MaxRegistryUpdates == 1

(***************************************************************************)
(* Strings                                                                 *)
(***************************************************************************)
RECURSIVE Split(_, _)
\* String.prototype.split(sep): the parts between the occurrences of sep.
Split(s, sep) ==
  IF \E i \in 1..Len(s) : s[i] = sep
  THEN LET i == CHOOSE k \in 1..Len(s) : s[k] = sep /\ \A j \in 1..(k - 1) : s[j] # sep
       IN  <<SubSeq(s, 1, i - 1)>> \o Split(SubSeq(s, i + 1, Len(s)), sep)
  ELSE <<s>>

RECURSIVE Join(_, _)
\* Template-literal concatenation of the parts with sep between them.
Join(parts, sep) ==
  IF Len(parts) = 0 THEN <<>>
  ELSE IF Len(parts) = 1 THEN parts[1]
  ELSE parts[1] \o <<sep>> \o Join(Tail(parts), sep)

IsPrefix(a, b) == Len(a) <= Len(b) /\ SubSeq(b, 1, Len(a)) = a

Min(a, b) == IF a <= b THEN a ELSE b

(***************************************************************************)
(* Inputs: images, platforms, digests                                      *)
(***************************************************************************)
NoPlatform == <<>>
LinuxAmd64 == <<"linux", "/", "amd64">>
LinuxArm64 == <<"linux", "/", "arm64">>

ImgApp == <<"app", ":", "v1">>
ImgDb  == <<"db">>
ImgBad == <<":", "v1">>

Service(image, platform) == [image |-> image, platform |-> platform]

\* The image lists run() hands to the processors: the images discovered from
\* the compose files followed by the additional images.
Batches ==
  { <<>>,
    <<Service(ImgApp, NoPlatform)>>,
    <<Service(ImgDb, LinuxArm64)>>,
    <<Service(ImgBad, NoPlatform)>> }

\* Lists of two images, processed concurrently.
PairBatches ==
  { <<Service(ImgApp, LinuxAmd64), Service(ImgApp, LinuxArm64)>>,
    <<Service(ImgDb, NoPlatform), Service(ImgApp, LinuxArm64)>>,
    <<Service(ImgBad, NoPlatform), Service(ImgDb, NoPlatform)>> }

ImgDbLatest == <<"db", ":", "latest">>
ImgDashName == <<"a", "-", "b", ":", "c">>
ImgDashTag == <<"a", ":", "b", "-", "c">>
ImgRegistry == <<"reg", ".", "io", "/", "app", ":", "1", ".", "0">>
LinuxArmV7 == <<"linux", "/", "arm", "/", "v7">>
ImgPort == <<"reg", ":", "5000", "/", "app", ":", "v1">>

\* Single images whose strings have no, one or several ":", or nothing
\* before the first ":".
RefBatches ==
  { <<Service(ImgDb, NoPlatform)>>,
    <<Service(ImgApp, NoPlatform)>>,
    <<Service(ImgPort, NoPlatform)>>,
    <<Service(ImgBad, NoPlatform)>> }

RECURSIVE uniqBy(_)
\* getComposeServicesFromFiles, line 119: of the services with the same image
\* and platform the first is kept.
uniqBy(services) ==
  IF services = <<>> THEN <<>>
  ELSE LET front == uniqBy(SubSeq(services, 1, Len(services) - 1))
           last == services[Len(services)]
       IN  IF \E i \in 1..Len(front) : front[i] = last THEN front ELSE Append(front, last)

\* run, lines 537-539: the services of the compose files, then one entry
\* without platform for each additional image.
targetImagesOf(composeServices, additionalImages) ==
  uniqBy(composeServices)
    \o [i \in 1..Len(additionalImages) |-> Service(additionalImages[i], NoPlatform)]

\* Inputs of run: the services declared in the compose files and the
\* additional-images input.
RunInputs ==
  { [composeServices |-> <<Service(ImgDb, NoPlatform), Service(ImgDb, NoPlatform)>>,
     additionalImages |-> <<>>],
    [composeServices |-> <<Service(ImgDb, NoPlatform)>>, additionalImages |-> <<ImgDb>>],
    [composeServices |-> <<Service(ImgDbLatest, NoPlatform)>>, additionalImages |-> <<ImgDb>>],
    [composeServices |-> <<Service(ImgDashName, NoPlatform)>>, additionalImages |-> <<ImgDashTag>>],
    [composeServices |-> <<Service(ImgRegistry, LinuxArmV7)>>, additionalImages |-> <<>>] }

\* The image lists run() builds from those inputs.
InputBatches == {targetImagesOf(inp.composeServices, inp.additionalImages) : inp \in RunInputs}

NoDigest == <<>>
Hex(c) == [i \in 1..13 |-> c]
Digests == << <<"sha256", ":">> \o Hex("1"),
              <<"sha256", ":">> \o Hex("2"),
              <<"sha256", ":">> \o Hex("3"),
              <<"sha256", ":">> \o Hex("4") >>

(***************************************************************************)
(* Cache Key Deriver (cache.ts)                                            *)
(***************************************************************************)
DigestPrefixLength == 12
HostOs == <<"linux">>
HostArch == <<"amd64">>
Separators == {":", "/", "."}

\* The image name has the characters that are not safe in a key or a file
\* name replaced by "-"; the tag is used as it is (README, lines 171-172, 242).
Sanitize(s) == [i \in 1..Len(s) |-> IF s[i] \in Separators THEN "-" ELSE s[i]]

\* <<os, arch, variant>> of a platform string; the host's when there is none.
ParsePlatform(platform) ==
  IF platform = NoPlatform THEN <<HostOs, HostArch, <<"none">>>>
  ELSE LET parts == Split(platform, "/")
       IN  << parts[1],
              IF Len(parts) >= 2 THEN parts[2] ELSE <<"none">>,
              IF Len(parts) >= 3 THEN parts[3] ELSE <<"none">> >>

extractDigestPrefix(digest) ==
  IF digest = NoDigest THEN <<"none">>
  ELSE LET hash == IF Len(digest) >= 2 /\ digest[1] = "sha256" /\ digest[2] = ":"
                   THEN SubSeq(digest, 3, Len(digest))
                   ELSE digest
       IN  SubSeq(hash, 1, Min(Len(hash), DigestPrefixLength))

generateCacheKeyPrefix(cacheKeyPrefix, imageName, imageTag, platform) ==
  LET pf == ParsePlatform(platform)
  IN  Join(<<cacheKeyPrefix, Sanitize(imageName), imageTag,
             Sanitize(pf[1]), Sanitize(pf[2]), Sanitize(pf[3])>>, "-")

generateCacheKey(cacheKeyPrefix, imageName, imageTag, platform, digest) ==
  generateCacheKeyPrefix(cacheKeyPrefix, imageName, imageTag, platform)
    \o <<"-">> \o extractDigestPrefix(digest)

generateManifestCacheKey(cacheKeyPrefix, imageName, imageTag, platform, digest) ==
  generateCacheKey(cacheKeyPrefix, imageName, imageTag, platform, digest)
    \o <<"-", "manifest">>

generateTarPath(imageName, imageTag, platform, digest) ==
  LET pf == ParsePlatform(platform)
  IN  <<"tmp", "/">>
        \o Join(<<Sanitize(imageName), imageTag, Sanitize(pf[1]),
                  Sanitize(pf[2]), Sanitize(pf[3]), extractDigestPrefix(digest)>>, "-")
        \o <<".", "tar">>

generateManifestPath(imageName, imageTag, platform, digest) ==
  LET pf == ParsePlatform(platform)
  IN  <<"tmp", "/">>
        \o Join(<<Sanitize(imageName), imageTag, Sanitize(pf[1]),
                  Sanitize(pf[2]), Sanitize(pf[3]), extractDigestPrefix(digest)>>, "-")
        \o <<"-", "manifest", ".", "json">>

\* The digest argument tryRestoreFromCacheWithoutDigest passes for its path.
FallbackDigest == <<"f", "a", "l", "l", "b", "a", "c", "k">>

(***************************************************************************)
(* State                                                                   *)
(***************************************************************************)
VARIABLES
  targetImages,     \* run: the images handed to the processors, in input order
  skipLatestCheck,  \* actionConfig.skipDigestVerification
  forceRefresh,     \* actionConfig.forceRefresh
  registry,         \* image string -> index in Digests of the tag's current digest
  regUpdates,       \* how many times the registry moved a tag so far
  localImages,      \* the runtime's image store: image string -> image, by reference
  files,            \* the temporary directory: path -> content
  cache,            \* the cache store: key -> content
  runPc,            \* run: "init", "processing", "done", "failed"
  outcomes,         \* run: serviceProcessingResults
  completed,        \* the processors in the order they returned
  pc,               \* processService, per image: the await it is suspended at
  manifest,         \* processService: manifest.digest resolved at the start
  tarHit,           \* processService: cacheResult of the archive restore
  manifestHit,      \* processService: manifestCacheResult of the manifest restore
  matched,          \* tryRestoreFromCacheWithoutDigest: cacheResult.cacheKey
  hasSize,          \* whether inspectImageLocal gave a size
  compared,         \* processCacheHit: the two manifests it read for validation
  log,              \* per image: the gateway calls made and the warnings logged
  result,           \* per image: the ServiceResult returned
  previous,         \* per image: what the run before this one did, if there was one
  discovery         \* run: the compose files and services it discovers from its inputs

vars == <<targetImages, skipLatestCheck, forceRefresh, registry, regUpdates,
          localImages, files, cache, runPc, outcomes, completed, pc, manifest,
          tarHit, manifestHit, matched, hasSize, compared, log, result, previous,
          discovery>>

Procs == 1..Len(targetImages)

\* actionConfig.cacheKeyPrefix: DEFAULT_CACHE_KEY_PREFIX
cacheKeyPrefix == <<"docker", "-", "compose", "-", "image">>

(***************************************************************************)
(* Contents of files, cache entries and the runtime's image store          *)
(***************************************************************************)
NoContent == [kind |-> "none", name |-> <<>>, plat |-> <<>>, dig |-> <<>>]
ImageContent(name, plat, dig) == [kind |-> "image", name |-> name, plat |-> plat, dig |-> dig]
ManifestContent(dig) == [kind |-> "manifest", name |-> <<>>, plat |-> <<>>, dig |-> dig]

FileAt(path) == IF path \in DOMAIN files THEN files[path] ELSE NoContent

(***************************************************************************)
(* processService: the names it derives (lines 291-363)                    *)
(***************************************************************************)
completeImageName(p) == targetImages[p].image
platformOf(p) == targetImages[p].platform
imageNamePart(p) == Split(completeImageName(p), ":")[1]
imageTagOrLatest(p) ==
  LET parts == Split(completeImageName(p), ":")
  IN  IF Len(parts) >= 2 THEN parts[2] ELSE <<"latest">>

\* A key per tag: the digest left out of it.
imageCacheKeyByTag(p) ==
  generateCacheKey(cacheKeyPrefix, imageNamePart(p), imageTagOrLatest(p), platformOf(p), NoDigest)

imageCacheKey(p) ==
  generateCacheKey(cacheKeyPrefix, imageNamePart(p), imageTagOrLatest(p), platformOf(p), manifest[p])
imageTarPath(p) ==
  generateTarPath(imageNamePart(p), imageTagOrLatest(p), platformOf(p), manifest[p])
\* The manifest stored under the key of the archive.
manifestCacheKeyOfArchive(p) ==
  generateCacheKey(cacheKeyPrefix, imageNamePart(p), imageTagOrLatest(p), platformOf(p), manifest[p])

manifestCacheKey(p) ==
  generateManifestCacheKey(cacheKeyPrefix, imageNamePart(p), imageTagOrLatest(p), platformOf(p), manifest[p])
manifestPath(p) ==
  generateManifestPath(imageNamePart(p), imageTagOrLatest(p), platformOf(p), manifest[p])
cacheKeyPrefixWithoutDigest(p) ==
  generateCacheKeyPrefix(cacheKeyPrefix, imageNamePart(p), imageTagOrLatest(p), platformOf(p))
fallbackTarPath(p) ==
  generateTarPath(imageNamePart(p), imageTagOrLatest(p), platformOf(p), FallbackDigest)

(***************************************************************************)
(* Image Runtime Gateway (docker-command.ts)                               *)
(*                                                                         *)
(* An external command ends "ok" (exit code 0), "nonzero", or "throw"      *)
(* (exec rejects); an inspection may also print text that is no JSON       *)
(* ("badjson") or a manifest that carries no digest ("nodigest").          *)
(***************************************************************************)
ExecOutcomes == {"ok", "nonzero", "throw"}
InspectOutcomes == {"ok", "nonzero", "throw", "badjson", "nodigest"}

\* pullImage without its try/catch: a rejected exec rejects the call.
pullImageNoCatch(raw) == [threw |-> raw = "throw", ok |-> raw = "ok", commands |-> 1]

\* inspectImageRemote without the try/catch around JSON.parse: output that is
\* no JSON rejects the call.
inspectImageRemoteNoParseCatch(raw, current) ==
  [threw |-> raw = "badjson",
   present |-> raw \in {"ok", "nodigest"},
   digest |-> IF raw = "ok" THEN current ELSE NoDigest,
   commands |-> 1]

\* threw: the call rejected; ok: the boolean it resolved to; commands: how
\* many times the body calls executeCommand (once, in no loop).
pullImage(raw) == [threw |-> FALSE, ok |-> raw = "ok", commands |-> 1]
saveImageToTar(raw) == [threw |-> FALSE, ok |-> raw = "ok", commands |-> 1]
loadImageFromTar(raw) == [threw |-> FALSE, ok |-> raw = "ok", commands |-> 1]
\* present: a metadata object was returned (Size is read from it).
inspectImageLocal(raw) == [threw |-> FALSE, present |-> raw = "ok", commands |-> 1]
\* present: a manifest object was returned; digest: its digest field.
inspectImageRemote(raw, current) ==
  [threw |-> FALSE,
   present |-> raw \in {"ok", "nodigest"},
   digest |-> IF raw = "ok" THEN current ELSE NoDigest,
   commands |-> 1]

\* What the external commands can do in the current state.
RegistryDigest(image) == Digests[registry[image]]
LocalImage(image) == IF image \in DOMAIN localImages THEN localImages[image] ELSE NoContent
\* docker save and docker inspect need the reference in the image store.
LocalOutcomes(image) ==
  IF LocalImage(image).kind = "image" THEN ExecOutcomes ELSE {"nonzero", "throw"}
\* docker load needs an image archive at the path.
LoadOutcomes(path) ==
  IF FileAt(path).kind = "image" THEN ExecOutcomes ELSE {"nonzero", "throw"}

(***************************************************************************)
(* Cache Store Gateway (cache.ts)                                          *)
(***************************************************************************)
CacheMiss == [success |-> FALSE, cacheKey |-> <<>>]
CacheHit(key) == [success |-> TRUE, cacheKey |-> key]

\* restoreFromCache: the exact key first, then the restore keys as prefixes in
\* the order given; a store that cannot be reached reports no success.
restoreFromCache(cacheKey, restoreKeys) ==
  {CacheMiss} \cup
  ( IF cacheKey \in DOMAIN cache THEN {CacheHit(cacheKey)}
    ELSE LET hits(i) == {k \in DOMAIN cache : IsPrefix(restoreKeys[i], k)}
             first == {i \in 1..Len(restoreKeys) :
                         hits(i) # {} /\ \A j \in 1..(i - 1) : hits(j) = {}}
         IN  {CacheHit(k) : k \in UNION {hits(i) : i \in first}} )

\* saveToCache: an entry is created once; saving a key that exists, a path whose
\* content is no file, or to a store that cannot be reached reports no success.
saveToCache(content, cacheKey) ==
  {FALSE} \cup (IF cacheKey \notin DOMAIN cache /\ content.kind # "none" THEN {TRUE} ELSE {})

(***************************************************************************)
(* Initial state: a fresh runner, a cache store left by earlier runs       *)
(***************************************************************************)
\* What an earlier run of this protocol, made while the registry served
\* Digests[1], left in the cache store for the images of the batch.
PriorArchives(batch) ==
  { << generateCacheKey(cacheKeyPrefix, Split(batch[i].image, ":")[1],
                        IF Len(Split(batch[i].image, ":")) >= 2
                        THEN Split(batch[i].image, ":")[2] ELSE <<"latest">>,
                        batch[i].platform, Digests[1]),
       ImageContent(batch[i].image, batch[i].platform, Digests[1]) >>
    : i \in {j \in 1..Len(batch) : Split(batch[j].image, ":")[1] # <<>>} }

PriorManifests(batch) ==
  { << e[1] \o <<"-", "manifest">>, ManifestContent(Digests[1]) >> : e \in PriorArchives(batch) }

PriorCaches(batch) ==
  { {}, PriorArchives(batch), PriorManifests(batch),
    PriorArchives(batch) \cup PriorManifests(batch) }

\* For a pair: nothing, or what a complete earlier run left.
PairPriorCaches(batch) ==
  { {}, PriorArchives(batch) \cup PriorManifests(batch) }

AsFunction(entries) ==
  [k \in {e[1] : e \in entries} |-> (CHOOSE e \in entries : e[1] = k)[2]]

\* Nothing read yet for validation (lines 225-228).
NotCompared ==
  [read |-> FALSE, cachedPresent |-> FALSE, cachedDigest |-> NoDigest,
   remotePresent |-> FALSE, remoteDigest |-> NoDigest]

NoResult ==
  [success |-> FALSE, restoredFromCache |-> FALSE, imageName |-> <<>>, cacheKey |-> <<>>,
   digest |-> NoDigest, platform |-> NoPlatform, error |-> "pending", imageSize |-> FALSE]

\* No run before this one.
NoPrevious == [ran |-> FALSE, digest |-> NoDigest, mismatch |-> FALSE]

InitOf(batches) ==
  /\ targetImages \in batches
  /\ skipLatestCheck \in BOOLEAN
  /\ forceRefresh \in BOOLEAN
  /\ registry = [img \in {targetImages[i].image : i \in 1..Len(targetImages)} |-> 1]
  /\ regUpdates = 0
  /\ localImages = [img \in {targetImages[i].image : i \in 1..Len(targetImages)} |-> NoContent]
  /\ files = AsFunction({})
  /\ \E entries \in (IF Len(targetImages) <= 1 THEN PriorCaches(targetImages)
                                                  ELSE PairPriorCaches(targetImages)) :
       cache = AsFunction(entries)
  /\ runPc = "init"
  /\ outcomes = <<>>
  /\ completed = <<>>
  /\ pc = [p \in 1..Len(targetImages) |-> "start"]
  /\ manifest = [p \in 1..Len(targetImages) |-> NoDigest]
  /\ tarHit = [p \in 1..Len(targetImages) |-> "pending"]
  /\ manifestHit = [p \in 1..Len(targetImages) |-> "pending"]
  /\ matched = [p \in 1..Len(targetImages) |-> <<>>]
  /\ hasSize = [p \in 1..Len(targetImages) |-> FALSE]
  /\ compared = [p \in 1..Len(targetImages) |-> NotCompared]
  /\ log = [p \in 1..Len(targetImages) |-> EmptyBag]
  /\ result = [p \in 1..Len(targetImages) |-> NoResult]
  /\ previous = [p \in 1..Len(targetImages) |-> NoPrevious]

(***************************************************************************)
(* Steps of a processor                                                    *)
(***************************************************************************)
\* What no step of a run changes: its inputs, and what the run before it did.
cfgVars == <<targetImages, skipLatestCheck, forceRefresh, previous, discovery>>
regVars == <<registry, regUpdates>>
restoreVars == <<tarHit, manifestHit, matched>>
localVars(p) == <<pc[p], manifest[p], tarHit[p], manifestHit[p], matched[p], hasSize[p],
                  compared[p], log[p], result[p]>>

\* A coordinator that stops the siblings once a processor returned a failure.
ActiveUntilFailure(p) ==
  /\ runPc \in {"processing", "failed"}
  /\ \A q \in 1..Len(targetImages) : pc[q] = "done" => result[q].success

\* Promise.all(targetImages.map(...)): every processor is started by the map and
\* runs on its own; nothing stops it when a sibling returns or rejects.
Active(p) == runPc \in {"processing", "failed"}

Call(op, ok) == [op |-> op, ok |-> ok]
\* The calls of a processor are counted, as a bag of <<operation, result>>.
Logged(p, entries) == log' = [log EXCEPT ![p] = @ (+) SetToBag(entries)]

\* Results collected as the processors return.
resultsInCompletionOrder(newResult, newCompleted) ==
  [i \in Procs |-> newResult[newCompleted[i]]]

\* run, line 561: Promise.all gives the results by input position, whatever
\* the order the processors returned in.
serviceProcessingResults(newResult, newCompleted) == [i \in Procs |-> newResult[i]]

\* The coordinator returning only when every image succeeded.
SettlesWhenAllSucceed(newPc, newResult, newCompleted) ==
  IF runPc = "processing" /\ \E q \in Procs : newPc[q] = "thrown"
  THEN runPc' = "failed" /\ UNCHANGED outcomes
  ELSE IF runPc = "processing" /\ \A q \in Procs : newPc[q] = "done" /\ newResult[q].success
  THEN runPc' = "done" /\ outcomes' = serviceProcessingResults(newResult, newCompleted)
  ELSE UNCHANGED <<runPc, outcomes>>

\* run, lines 561-596: the await of Promise.all resumes run as soon as a
\* processor rejects (catch, setFailed), or when the last one has returned:
\* serviceProcessingResults are the results by input position.
Settles(newPc, newResult, newCompleted) ==
  IF runPc = "processing" /\ \E q \in Procs : newPc[q] = "thrown"
  THEN runPc' = "failed" /\ UNCHANGED outcomes
  ELSE IF runPc = "processing" /\ \A q \in Procs : newPc[q] = "done"
  THEN runPc' = "done" /\ outcomes' = serviceProcessingResults(newResult, newCompleted)
  ELSE UNCHANGED <<runPc, outcomes>>

Goto(p, label) == pc' = [pc EXCEPT ![p] = label] /\ UNCHANGED <<result, completed, runPc, outcomes>>
\* The promise of processService rejects.
Rejects(p) ==
  /\ pc' = [pc EXCEPT ![p] = "thrown"]
  /\ UNCHANGED <<result, completed>>
  /\ Settles([pc EXCEPT ![p] = "thrown"], result, completed)
\* The promise of processService resolves to res.
Returns(p, res) ==
  /\ pc' = [pc EXCEPT ![p] = "done"]
  /\ result' = [result EXCEPT ![p] = res]
  /\ completed' = Append(completed, p)
  /\ Settles([pc EXCEPT ![p] = "done"], [result EXCEPT ![p] = res], Append(completed, p))

ServiceResult(p, success, restoredFromCache, key, digest, error, size) ==
  [success |-> success, restoredFromCache |-> restoredFromCache,
   imageName |-> completeImageName(p), cacheKey |-> key, digest |-> digest,
   platform |-> platformOf(p), error |-> error, imageSize |-> size]

\* Lines 330-339: the outcome when no digest could be resolved.
NoDigestResult(p) == ServiceResult(p, FALSE, FALSE, <<>>, NoDigest, "Could not get digest", FALSE)

\* The fallback tried whatever skipLatestCheck is.
tryFallbackWithoutSkip == ~forceRefresh

\* The forced refresh ignored: the fallback tried whenever verification is skipped.
tryFallbackDespiteRefresh == skipLatestCheck

\* Line 312: the degraded fallback is tried when verification is skipped and
\* no refresh is forced.
tryFallback == skipLatestCheck /\ ~forceRefresh

\* The forced refresh ignored: the restore is always tried first.
alwaysRestore == "restore"

\* Lines 371-401: a forced refresh goes to pullAndCacheImage without a restore.
afterKeyDerivation == IF forceRefresh THEN "pull" ELSE "restore"

\* The fallback reported as a pull.
FallbackResultAsPulled(p, size) == ServiceResult(p, TRUE, FALSE, matched[p], NoDigest, "", size)

\* Lines 155-163: the outcome of the degraded fallback.
FallbackResult(p, size) == ServiceResult(p, TRUE, TRUE, matched[p], NoDigest, "", size)

\* processService without its guard against an empty name.
ResolveDigestUnguarded(p) ==
  /\ Active(p) /\ pc[p] = "start"
  /\ UNCHANGED <<cfgVars, regVars, compared, localImages, files, cache, restoreVars, hasSize>>
  /\ \E raw \in InspectOutcomes :
       LET m == inspectImageRemote(raw, RegistryDigest(completeImageName(p)))
       IN  IF m.threw
           THEN /\ Rejects(p)
                /\ Logged(p, {Call("inspectRemote", FALSE)})
                /\ UNCHANGED manifest
           ELSE IF ~m.present \/ m.digest = NoDigest
           THEN /\ UNCHANGED manifest
                /\ IF tryFallback
                   THEN /\ Goto(p, "fallbackRestore")
                        /\ Logged(p, {Call("inspectRemote", FALSE)})
                   ELSE /\ Returns(p, NoDigestResult(p))
                        /\ Logged(p, {Call("inspectRemote", FALSE), Call("warnNoDigest", TRUE)})
           ELSE /\ manifest' = [manifest EXCEPT ![p] = m.digest]
                /\ Logged(p, {Call("inspectRemote", TRUE)})
                /\ Goto(p, afterKeyDerivation)

\* Lines 291-340: split the image string, reject an empty name, resolve the digest.
ResolveDigest(p) ==
  /\ Active(p) /\ pc[p] = "start"
  /\ UNCHANGED <<cfgVars, regVars, compared, localImages, files, cache, restoreVars, hasSize>>
  /\ IF imageNamePart(p) = <<>>
     THEN /\ Returns(p, ServiceResult(p, FALSE, FALSE, <<>>, NoDigest, "Invalid image name format", FALSE))
          /\ UNCHANGED <<manifest, log>>
     ELSE \E raw \in InspectOutcomes :
            LET m == inspectImageRemote(raw, RegistryDigest(completeImageName(p)))
            IN  IF m.threw
                THEN /\ Rejects(p)
                     /\ Logged(p, {Call("inspectRemote", FALSE)})
                     /\ UNCHANGED manifest
                ELSE IF ~m.present \/ m.digest = NoDigest
                THEN /\ UNCHANGED manifest
                     /\ IF tryFallback
                        THEN /\ Goto(p, "fallbackRestore")
                             /\ Logged(p, {Call("inspectRemote", FALSE)})
                        ELSE /\ Returns(p, NoDigestResult(p))
                             /\ Logged(p, {Call("inspectRemote", FALSE), Call("warnNoDigest", TRUE)})
                ELSE /\ manifest' = [manifest EXCEPT ![p] = m.digest]
                     /\ Logged(p, {Call("inspectRemote", TRUE)})
                     /\ Goto(p, afterKeyDerivation)

\* Lines 127-142: restore by the digest-less prefix as a restore key.
FallbackRestore(p) ==
  /\ Active(p) /\ pc[p] = "fallbackRestore"
  /\ UNCHANGED <<cfgVars, regVars, compared, localImages, cache, manifest, tarHit, manifestHit, hasSize>>
  /\ \E r \in restoreFromCache(cacheKeyPrefixWithoutDigest(p) \o <<"-">> \o FallbackDigest,
                               <<cacheKeyPrefixWithoutDigest(p)>>) :
       IF ~r.success
       THEN /\ Returns(p, NoDigestResult(p))
            /\ Logged(p, {Call("restoreFallback", FALSE), Call("warnNoDigest", TRUE)})
            /\ UNCHANGED <<files, matched>>
       ELSE /\ files' = (fallbackTarPath(p) :> cache[r.cacheKey]) @@ files
            /\ matched' = [matched EXCEPT ![p] = r.cacheKey]
            /\ Logged(p, {Call("restoreFallback", TRUE)})
            /\ Goto(p, "fallbackLoad")

\* The result of the load dropped: the fallback goes on after a failed load.
FallbackLoadUnchecked(p) ==
  /\ Active(p) /\ pc[p] = "fallbackLoad"
  /\ UNCHANGED <<cfgVars, regVars, compared, files, cache, manifest, restoreVars, hasSize>>
  /\ \E raw \in LoadOutcomes(fallbackTarPath(p)) :
       /\ localImages' = IF raw = "ok"
                         THEN (FileAt(fallbackTarPath(p)).name :> FileAt(fallbackTarPath(p))) @@ localImages
                         ELSE localImages
       /\ Goto(p, "fallbackInspect") /\ Logged(p, {Call("load", raw = "ok")})

\* Lines 144-149: load the restored archive.
FallbackLoad(p) ==
  /\ Active(p) /\ pc[p] = "fallbackLoad"
  /\ UNCHANGED <<cfgVars, regVars, compared, files, cache, manifest, restoreVars, hasSize>>
  /\ \E raw \in LoadOutcomes(fallbackTarPath(p)) :
       LET r == loadImageFromTar(raw)
       IN  /\ localImages' = IF raw = "ok"
                             THEN (FileAt(fallbackTarPath(p)).name :> FileAt(fallbackTarPath(p))) @@ localImages
                             ELSE localImages
           /\ IF r.threw
              THEN Rejects(p) /\ Logged(p, {Call("load", FALSE)})
              ELSE IF ~r.ok
              THEN /\ Returns(p, NoDigestResult(p))
                   /\ Logged(p, {Call("load", FALSE), Call("warnNoDigest", TRUE)})
              ELSE Goto(p, "fallbackInspect") /\ Logged(p, {Call("load", TRUE)})

\* Lines 151-163 and 321-327: size of the loaded image, staleness warning, outcome.
FallbackInspect(p) ==
  /\ Active(p) /\ pc[p] = "fallbackInspect"
  /\ UNCHANGED <<cfgVars, regVars, compared, localImages, files, cache, manifest, restoreVars>>
  /\ \E raw \in LocalOutcomes(completeImageName(p)) :
       LET r == inspectImageLocal(raw)
       IN  IF r.threw
           THEN Rejects(p) /\ Logged(p, {Call("inspectLocal", FALSE)}) /\ UNCHANGED hasSize
           ELSE /\ hasSize' = [hasSize EXCEPT ![p] = r.present]
                /\ Logged(p, {Call("inspectLocal", r.present), Call("warnStale", TRUE)})
                /\ Returns(p, FallbackResult(p, r.present))

\* The archive restore with the digest-less prefix as a restore key.
RestoreArchiveByPrefix(p) ==
  /\ Active(p) /\ pc[p] = "restore" /\ tarHit[p] = "pending"
  /\ UNCHANGED <<cfgVars, regVars, compared, localImages, cache, manifest, manifestHit, matched, hasSize>>
  /\ \E r \in restoreFromCache(imageCacheKey(p), <<cacheKeyPrefixWithoutDigest(p)>>) :
       /\ tarHit' = [tarHit EXCEPT ![p] = IF r.success THEN "hit" ELSE "miss"]
       /\ files' = IF r.success THEN (imageTarPath(p) :> cache[r.cacheKey]) @@ files ELSE files
       /\ Logged(p, {Call("restoreArchive", r.success)})
       /\ IF manifestHit[p] = "pending" THEN Goto(p, "restore")
          ELSE Goto(p, IF r.success THEN "load" ELSE "pull")

\* A restored manifest snapshot taken as a cache hit although the archive missed.
RestoreArchiveOrManifest(p) ==
  /\ Active(p) /\ pc[p] = "restore" /\ tarHit[p] = "pending"
  /\ UNCHANGED <<cfgVars, regVars, compared, localImages, cache, manifest, manifestHit, matched, hasSize>>
  /\ \E r \in restoreFromCache(imageCacheKey(p), <<>>) :
       /\ tarHit' = [tarHit EXCEPT ![p] = IF r.success THEN "hit" ELSE "miss"]
       /\ files' = IF r.success THEN (imageTarPath(p) :> cache[r.cacheKey]) @@ files ELSE files
       /\ Logged(p, {Call("restoreArchive", r.success)})
       /\ IF manifestHit[p] = "pending" THEN Goto(p, "restore")
          ELSE Goto(p, IF r.success \/ manifestHit[p] = "hit" THEN "load" ELSE "pull")

\* Lines 397-401: the exact-key restore of the archive, one of the two restores
\* issued together; the later of the two decides hit or miss (lines 403-431).
RestoreArchive(p) ==
  /\ Active(p) /\ pc[p] = "restore" /\ tarHit[p] = "pending"
  /\ UNCHANGED <<cfgVars, regVars, compared, localImages, cache, manifest, manifestHit, matched, hasSize>>
  /\ \E r \in restoreFromCache(imageCacheKey(p), <<>>) :
       /\ tarHit' = [tarHit EXCEPT ![p] = IF r.success THEN "hit" ELSE "miss"]
       /\ files' = IF r.success THEN (imageTarPath(p) :> cache[r.cacheKey]) @@ files ELSE files
       /\ Logged(p, {Call("restoreArchive", r.success)})
       /\ IF manifestHit[p] = "pending" THEN Goto(p, "restore")
          ELSE Goto(p, IF r.success THEN "load" ELSE "pull")

\* Lines 397-401: the exact-key restore of the manifest snapshot.
RestoreManifest(p) ==
  /\ Active(p) /\ pc[p] = "restore" /\ manifestHit[p] = "pending"
  /\ UNCHANGED <<cfgVars, regVars, compared, localImages, cache, manifest, tarHit, matched, hasSize>>
  /\ \E r \in restoreFromCache(manifestCacheKey(p), <<>>) :
       /\ manifestHit' = [manifestHit EXCEPT ![p] = IF r.success THEN "hit" ELSE "miss"]
       /\ files' = IF r.success THEN (manifestPath(p) :> cache[r.cacheKey]) @@ files ELSE files
       /\ Logged(p, {Call("restoreManifest", r.success)})
       /\ IF tarHit[p] = "pending" THEN Goto(p, "restore")
          ELSE Goto(p, IF tarHit[p] = "hit" THEN "load" ELSE "pull")

\* Lines 385-394 and 417-426: the outcome after pullAndCacheImage.
PullResult(p, success, error, size) ==
  ServiceResult(p, success, FALSE, imageCacheKey(p), manifest[p], error, size)

\* Lines 65-71: pull the image.
Pull(p) ==
  /\ Active(p) /\ pc[p] = "pull"
  /\ UNCHANGED <<cfgVars, regVars, compared, files, cache, manifest, restoreVars, hasSize>>
  /\ \E raw \in ExecOutcomes :
       LET r == pullImage(raw)
           image == completeImageName(p)
       IN  /\ localImages' = IF raw = "ok"
                             THEN (image :> ImageContent(image, platformOf(p), RegistryDigest(image))) @@ localImages
                             ELSE localImages
           /\ Logged(p, {Call("pull", r.ok)})
           /\ IF r.threw THEN Rejects(p)
              ELSE IF ~r.ok THEN Returns(p, PullResult(p, FALSE, "Failed to pull image", FALSE))
              ELSE Goto(p, "verify")

\* Lines 73-81: the remote digest after the pull must be the one resolved first.
VerifyDigest(p) ==
  /\ Active(p) /\ pc[p] = "verify"
  /\ UNCHANGED <<cfgVars, regVars, compared, localImages, files, cache, manifest, restoreVars, hasSize>>
  /\ \E raw \in InspectOutcomes :
       LET newManifest == inspectImageRemote(raw, RegistryDigest(completeImageName(p)))
           newImageDigest == IF newManifest.present THEN newManifest.digest ELSE NoDigest
       IN  /\ Logged(p, {Call("inspectRemoteAfterPull", newManifest.present),
                          Call("verifyDigest", newImageDigest = manifest[p])})
           /\ IF newManifest.threw THEN Rejects(p)
              ELSE IF newImageDigest # manifest[p]
              THEN Returns(p, PullResult(p, FALSE, "Digest mismatch", FALSE))
              ELSE Goto(p, "saveTar")

\* The result of saveImageToTar not looked at.
SaveTarUnchecked(p) ==
  /\ Active(p) /\ pc[p] = "saveTar"
  /\ UNCHANGED <<cfgVars, regVars, compared, localImages, cache, manifest, restoreVars, hasSize>>
  /\ \E raw \in LocalOutcomes(completeImageName(p)) :
       LET r == saveImageToTar(raw)
       IN  /\ files' = IF raw = "ok"
                       THEN (imageTarPath(p) :> LocalImage(completeImageName(p))) @@ files
                       ELSE files
           /\ Logged(p, {Call("saveTar", r.ok)})
           /\ Goto(p, "saveManifest")

\* Lines 83-89: save the image of that reference to the archive path.
SaveTar(p) ==
  /\ Active(p) /\ pc[p] = "saveTar"
  /\ UNCHANGED <<cfgVars, regVars, compared, localImages, cache, manifest, restoreVars, hasSize>>
  /\ \E raw \in LocalOutcomes(completeImageName(p)) :
       LET r == saveImageToTar(raw)
       IN  /\ files' = IF raw = "ok"
                       THEN (imageTarPath(p) :> LocalImage(completeImageName(p))) @@ files
                       ELSE files
           /\ Logged(p, {Call("saveTar", r.ok)})
           /\ IF r.threw THEN Rejects(p)
              ELSE IF ~r.ok THEN Returns(p, PullResult(p, FALSE, "Failed to save image to tar", FALSE))
              ELSE Goto(p, "saveManifest")

\* Lines 91-92: write the manifest resolved first to its file and save it
\* under the manifest key; the result is not looked at.
SaveManifest(p) ==
  /\ Active(p) /\ pc[p] = "saveManifest"
  /\ UNCHANGED <<cfgVars, regVars, compared, localImages, manifest, restoreVars, hasSize>>
  /\ \E written \in BOOLEAN :
       LET content == IF written THEN ManifestContent(manifest[p]) ELSE NoContent
       IN  /\ files' = IF written THEN (manifestPath(p) :> content) @@ files ELSE files
           /\ \E saved \in saveToCache(content, manifestCacheKey(p)) :
                /\ cache' = IF saved THEN (manifestCacheKey(p) :> content) @@ cache ELSE cache
                /\ Logged(p, {Call("saveManifest", saved)})
  /\ Goto(p, "saveCache")

\* pullAndCacheImage without its saveToCache call.
SaveCacheSkipped(p) ==
  /\ Active(p) /\ pc[p] = "saveCache"
  /\ Goto(p, "inspectLocal")
  /\ UNCHANGED <<cfgVars, regVars, compared, localImages, files, cache, manifest, restoreVars,
                 hasSize, log>>

\* Lines 94-98: save the archive file under the image key.
SaveCache(p) ==
  /\ Active(p) /\ pc[p] = "saveCache"
  /\ UNCHANGED <<cfgVars, regVars, compared, localImages, files, manifest, restoreVars, hasSize>>
  /\ \E saved \in saveToCache(FileAt(imageTarPath(p)), imageCacheKey(p)) :
       /\ cache' = IF saved THEN (imageCacheKey(p) :> FileAt(imageTarPath(p))) @@ cache ELSE cache
       /\ Logged(p, {Call("saveCache", saved)})
  /\ Goto(p, "inspectLocal")

\* Lines 100-106: the size of the pulled image; the pull-and-cache path succeeds.
InspectLocal(p) ==
  /\ Active(p) /\ pc[p] = "inspectLocal"
  /\ UNCHANGED <<cfgVars, regVars, compared, localImages, files, cache, manifest, restoreVars>>
  /\ \E raw \in LocalOutcomes(completeImageName(p)) :
       LET r == inspectImageLocal(raw)
       IN  /\ Logged(p, {Call("inspectLocal", r.present)})
           /\ IF r.threw THEN Rejects(p) /\ UNCHANGED hasSize
              ELSE /\ hasSize' = [hasSize EXCEPT ![p] = r.present]
                   /\ Returns(p, PullResult(p, TRUE, "", r.present))

\* The outcome of processCacheHit returned as it is, with its empty cache key.
HitResultWithoutKey(p, success, restoredFromCache, error, size) ==
  ServiceResult(p, success, restoredFromCache, <<>>, manifest[p], error, size)

\* Lines 431-444: the outcome of processCacheHit, with the image key put in.
HitResult(p, success, restoredFromCache, error, size) ==
  ServiceResult(p, success, restoredFromCache, imageCacheKey(p), manifest[p], error, size)

\* A failed load taken as a miss: the image is pulled instead.
LoadOrPull(p) ==
  /\ Active(p) /\ pc[p] = "load"
  /\ UNCHANGED <<cfgVars, regVars, compared, files, cache, manifest, restoreVars, hasSize>>
  /\ \E raw \in LoadOutcomes(imageTarPath(p)) :
       LET r == loadImageFromTar(raw)
       IN  /\ localImages' = IF raw = "ok"
                             THEN (FileAt(imageTarPath(p)).name :> FileAt(imageTarPath(p))) @@ localImages
                             ELSE localImages
           /\ Logged(p, {Call("load", r.ok)})
           /\ IF ~r.ok THEN Goto(p, "pull") ELSE Goto(p, "hitInspect")

\* Lines 178-190: load the restored archive.
Load(p) ==
  /\ Active(p) /\ pc[p] = "load"
  /\ UNCHANGED <<cfgVars, regVars, compared, files, cache, manifest, restoreVars, hasSize>>
  /\ \E raw \in LoadOutcomes(imageTarPath(p)) :
       LET r == loadImageFromTar(raw)
       IN  /\ localImages' = IF raw = "ok"
                             THEN (FileAt(imageTarPath(p)).name :> FileAt(imageTarPath(p))) @@ localImages
                             ELSE localImages
           /\ Logged(p, {Call("load", r.ok)})
           /\ IF r.threw THEN Rejects(p)
              ELSE IF ~r.ok THEN Returns(p, HitResult(p, FALSE, FALSE, "Failed to load image from cache", FALSE))
              ELSE Goto(p, "hitInspect")

\* The cache validated even when verification is skipped.
HitInspectIgnoringSkip(p) ==
  /\ Active(p) /\ pc[p] = "hitInspect"
  /\ UNCHANGED <<cfgVars, regVars, compared, localImages, files, cache, manifest, restoreVars>>
  /\ \E raw \in LocalOutcomes(completeImageName(p)) :
       LET r == inspectImageLocal(raw)
       IN  /\ Logged(p, {Call("inspectLocal", r.present)})
           /\ IF r.threw THEN Rejects(p) /\ UNCHANGED hasSize
              ELSE /\ hasSize' = [hasSize EXCEPT ![p] = r.present]
                   /\ IF manifestHit[p] # "hit"
                      THEN Returns(p, HitResult(p, TRUE, TRUE, "", r.present))
                      ELSE Goto(p, "validate")

\* The cache validated even when no manifest snapshot was restored.
HitInspectWithoutSnapshot(p) ==
  /\ Active(p) /\ pc[p] = "hitInspect"
  /\ UNCHANGED <<cfgVars, regVars, compared, localImages, files, cache, manifest, restoreVars>>
  /\ \E raw \in LocalOutcomes(completeImageName(p)) :
       LET r == inspectImageLocal(raw)
       IN  /\ Logged(p, {Call("inspectLocal", r.present)})
           /\ IF r.threw THEN Rejects(p) /\ UNCHANGED hasSize
              ELSE /\ hasSize' = [hasSize EXCEPT ![p] = r.present]
                   /\ IF skipLatestCheck
                      THEN Returns(p, HitResult(p, TRUE, TRUE, "", r.present))
                      ELSE Goto(p, "validate")

\* Lines 192-222: size of the loaded image; trust the cache when verification
\* is skipped or no manifest snapshot was restored.
HitInspect(p) ==
  /\ Active(p) /\ pc[p] = "hitInspect"
  /\ UNCHANGED <<cfgVars, regVars, compared, localImages, files, cache, manifest, restoreVars>>
  /\ \E raw \in LocalOutcomes(completeImageName(p)) :
       LET r == inspectImageLocal(raw)
       IN  /\ Logged(p, {Call("inspectLocal", r.present)})
           /\ IF r.threw THEN Rejects(p) /\ UNCHANGED hasSize
              ELSE /\ hasSize' = [hasSize EXCEPT ![p] = r.present]
                   /\ IF skipLatestCheck \/ manifestHit[p] # "hit"
                      THEN Returns(p, HitResult(p, TRUE, TRUE, "", r.present))
                      ELSE Goto(p, "validate")

\* The comparison inverted.
manifestsMatchInverted(cachedManifest, remoteManifest) == cachedManifest.dig # remoteManifest.digest
\* The comparison left out: a restored manifest is always taken to match.
manifestsMatchAlways(cachedManifest, remoteManifest) == TRUE

\* No restored manifest is ever taken to match.
manifestsMatchNever(cachedManifest, remoteManifest) == FALSE

\* Line 245: the comparison of the cached and the remote manifest.
manifestsMatch(cachedManifest, remoteManifest) == cachedManifest.dig = remoteManifest.digest

\* Missing data taken as a mismatch: the image is pulled unless both manifests
\* were read and are equal.
ValidateOrPull(p) ==
  /\ Active(p) /\ pc[p] = "validate"
  /\ UNCHANGED <<cfgVars, regVars, localImages, files, cache, manifest, restoreVars, hasSize>>
  /\ \E raw \in InspectOutcomes, readable \in BOOLEAN :
       LET remoteManifest == inspectImageRemote(raw, RegistryDigest(completeImageName(p)))
           cachedManifest == IF readable /\ FileAt(manifestPath(p)).kind = "manifest"
                             THEN FileAt(manifestPath(p)) ELSE NoContent
       IN  /\ Logged(p, {Call("readManifest", cachedManifest.kind = "manifest"),
                          Call("inspectRemoteForValidation", remoteManifest.present)})
           /\ compared' = [compared EXCEPT ![p] =
                             [read |-> TRUE,
                              cachedPresent |-> cachedManifest.kind = "manifest",
                              cachedDigest |-> cachedManifest.dig,
                              remotePresent |-> remoteManifest.present,
                              remoteDigest |-> remoteManifest.digest]]
           /\ IF remoteManifest.threw THEN Rejects(p)
              ELSE IF cachedManifest.kind = "manifest" /\ remoteManifest.present
                      /\ manifestsMatch(cachedManifest, remoteManifest)
              THEN Returns(p, HitResult(p, TRUE, TRUE, "", hasSize[p]))
              ELSE Goto(p, "hitPull")

\* Lines 224-259: read the restored manifest snapshot and fetch the remote
\* manifest; trust the cache when either is missing or the digests are equal.
Validate(p) ==
  /\ Active(p) /\ pc[p] = "validate"
  /\ UNCHANGED <<cfgVars, regVars, localImages, files, cache, manifest, restoreVars, hasSize>>
  /\ \E raw \in InspectOutcomes, readable \in BOOLEAN :
       LET remoteManifest == inspectImageRemote(raw, RegistryDigest(completeImageName(p)))
           cachedManifest == IF readable /\ FileAt(manifestPath(p)).kind = "manifest"
                             THEN FileAt(manifestPath(p)) ELSE NoContent
       IN  /\ Logged(p, {Call("readManifest", cachedManifest.kind = "manifest"),
                          Call("inspectRemoteForValidation", remoteManifest.present)})
           /\ compared' = [compared EXCEPT ![p] =
                             [read |-> TRUE,
                              cachedPresent |-> cachedManifest.kind = "manifest",
                              cachedDigest |-> cachedManifest.dig,
                              remotePresent |-> remoteManifest.present,
                              remoteDigest |-> remoteManifest.digest]]
           /\ IF remoteManifest.threw THEN Rejects(p)
              ELSE IF cachedManifest.kind # "manifest" \/ ~remoteManifest.present
              THEN Returns(p, HitResult(p, TRUE, TRUE, "", hasSize[p]))
              ELSE IF manifestsMatch(cachedManifest, remoteManifest)
              THEN Returns(p, HitResult(p, TRUE, TRUE, "", hasSize[p]))
              ELSE Goto(p, "hitPull")

\* Lines 258-273: the digests differ: pull, warn if that fails, report the hit.
HitPull(p) ==
  /\ Active(p) /\ pc[p] = "hitPull"
  /\ UNCHANGED <<cfgVars, regVars, compared, files, cache, manifest, restoreVars, hasSize>>
  /\ \E raw \in ExecOutcomes :
       LET pullSuccess == pullImage(raw)
           image == completeImageName(p)
       IN  /\ localImages' = IF raw = "ok"
                             THEN (image :> ImageContent(image, platformOf(p), RegistryDigest(image))) @@ localImages
                             ELSE localImages
           /\ IF pullSuccess.threw THEN Rejects(p) /\ Logged(p, {Call("pull", FALSE)})
              ELSE /\ Logged(p, IF pullSuccess.ok THEN {Call("pull", TRUE)}
                                ELSE {Call("pull", FALSE), Call("warnPullFailed", TRUE)})
                   /\ Returns(p, HitResult(p, TRUE, TRUE, "", hasSize[p]))

(***************************************************************************)
(* The registry and the batch coordinator                                  *)
(***************************************************************************)
\* The registry moves the tag of an image to a new digest.
RegistryUpdate ==
  /\ runPc \in {"init", "processing"}
  /\ regUpdates < MaxRegistryUpdates
  /\ \E image \in DOMAIN registry :
       /\ registry[image] < Len(Digests)
       /\ registry' = [registry EXCEPT ![image] = @ + 1]
  /\ regUpdates' = regUpdates + 1
  /\ UNCHANGED <<cfgVars, runPc, outcomes, localImages, files, cache, completed, pc,
                 manifest, restoreVars, hasSize, compared, log, result>>

\* run, lines 535-562: no image ends the run at once; otherwise every
\* processor is started.
RunStart ==
  /\ runPc = "init"
  /\ runPc' = IF Len(targetImages) = 0 THEN "done" ELSE "processing"
  /\ UNCHANGED <<cfgVars, regVars, outcomes, localImages, files, cache, completed, pc,
                 manifest, restoreVars, hasSize, compared, log, result>>

\* calculateActionSummary (action-outputs.ts): every result is a success
\* restored from the cache.
allServicesFromCache(results) ==
  \A i \in 1..Len(results) : results[i].success /\ results[i].restoredFromCache

\* The output set when some image came from the cache.
cacheHitOutputOfAny ==
  \E i \in 1..Len(outcomes) : outcomes[i].success /\ outcomes[i].restoredFromCache

\* The output taken from the summary even when there is no image.
cacheHitOutputOfSummary == allServicesFromCache(outcomes)

\* run, lines 541-545 and 584-587: the cache-hit output of a finished run:
\* false when there is no image, else the summary's allServicesFromCache.
cacheHitOutput ==
  IF Len(targetImages) = 0 THEN FALSE ELSE allServicesFromCache(outcomes)

\* processCacheHit came to line 258: both manifests were read and differ.
tookMismatchBranch(p) ==
  /\ compared[p].read /\ compared[p].cachedPresent /\ compared[p].remotePresent
  /\ compared[p].cachedDigest # compared[p].remoteDigest

\* The workflow runs again, on a fresh runner, with the same inputs: the cache
\* store and the registry are what the run before left.
NextRun ==
  /\ runPc = "done" /\ Len(targetImages) > 0
  /\ previous' = [p \in Procs |->
                    [ran |-> TRUE, digest |-> manifest[p], mismatch |-> tookMismatchBranch(p)]]
  /\ runPc' = "init"
  /\ outcomes' = <<>>
  /\ completed' = <<>>
  /\ pc' = [p \in Procs |-> "start"]
  /\ manifest' = [p \in Procs |-> NoDigest]
  /\ tarHit' = [p \in Procs |-> "pending"]
  /\ manifestHit' = [p \in Procs |-> "pending"]
  /\ matched' = [p \in Procs |-> <<>>]
  /\ hasSize' = [p \in Procs |-> FALSE]
  /\ compared' = [p \in Procs |-> NotCompared]
  /\ log' = [p \in Procs |-> EmptyBag]
  /\ result' = [p \in Procs |-> NoResult]
  /\ localImages' = [img \in DOMAIN localImages |-> NoContent]
  /\ files' = AsFunction({})
  /\ UNCHANGED <<targetImages, skipLatestCheck, forceRefresh, regVars, cache, discovery>>

(***************************************************************************)
(* Compose file discovery (docker-compose-file.ts)                         *)
(*                                                                         *)
(* Image names and exclusion patterns are spelled character by character.  *)
(* A path is one token; the working directory is the set of the paths that *)
(* exist and what each file holds.                                         *)
(***************************************************************************)
DEFAULT_COMPOSE_FILE_NAMES ==
  <<"compose.yaml", "compose.yml", "docker-compose.yaml", "docker-compose.yml">>

\* The characters line 45 puts a backslash before.
EscapedChars == {".", "+", "^", "$", "{", "}", "(", ")", "|", "[", "]", "\\"}

\* The characters "." of a regular expression does not match.
LineTerminators == {"\n"}

\* What a character stands for in a regular expression when nothing escapes it.
RegexAtom(c) ==
  IF c = "." THEN [kind |-> "any", char |-> ""] ELSE [kind |-> "literal", char |-> c]

\* Lines 43-49: escape the special characters, then "*" becomes ".*" and "?"
\* becomes "."; the expression is anchored at both ends.
patternToRegex(pattern) ==
  [i \in 1..Len(pattern) |->
     IF pattern[i] \in EscapedChars THEN [kind |-> "literal", char |-> pattern[i]]
     ELSE IF pattern[i] = "*" THEN [kind |-> "anyStar", char |-> ""]
     ELSE IF pattern[i] = "?" THEN [kind |-> "any", char |-> ""]
     ELSE RegexAtom(pattern[i])]

RECURSIVE RegexTest(_, _)
\* RegExp.prototype.test for an expression ^...$ without flags.
RegexTest(regex, s) ==
  IF regex = <<>> THEN s = <<>>
  ELSE IF regex[1].kind = "literal"
  THEN s # <<>> /\ s[1] = regex[1].char /\ RegexTest(Tail(regex), Tail(s))
  ELSE IF regex[1].kind = "any"
  THEN s # <<>> /\ s[1] \notin LineTerminators /\ RegexTest(Tail(regex), Tail(s))
  ELSE \E k \in 0..Len(s) :
         /\ \A j \in 1..k : s[j] \notin LineTerminators
         /\ RegexTest(Tail(regex), SubSeq(s, k + 1, Len(s)))

\* Lines 59-68.
matchesExcludePattern(imageName, patterns) ==
  \E i \in 1..Len(patterns) :
    IF \A j \in 1..Len(patterns[i]) : patterns[i][j] \notin {"*", "?"}
    THEN imageName = patterns[i]
    ELSE RegexTest(patternToRegex(patterns[i]), imageName)

RECURSIVE filterSeq(_, _)
\* Array.prototype.filter with membership in a set as the predicate.
filterSeq(s, kept) ==
  IF s = <<>> THEN <<>>
  ELSE IF s[1] \in kept THEN <<s[1]>> \o filterSeq(Tail(s), kept)
  ELSE filterSeq(Tail(s), kept)

\* The default names used whenever no provided path exists.
getComposeFilePathsOrDefaults(candidateComposeFilePaths, existing) ==
  IF filterSeq(candidateComposeFilePaths, existing) # <<>>
  THEN filterSeq(candidateComposeFilePaths, existing)
  ELSE filterSeq(DEFAULT_COMPOSE_FILE_NAMES, existing)

\* Lines 76-80; existing is what fs.existsSync answers true for.
getComposeFilePathsToProcess(candidateComposeFilePaths, existing) ==
  IF Len(candidateComposeFilePaths) > 0
  THEN filterSeq(candidateComposeFilePaths, existing)
  ELSE filterSeq(DEFAULT_COMPOSE_FILE_NAMES, existing)

\* A service of a compose file: its name, whether it has a body (a mapping),
\* whether the body has an image, and the image and platform it gives.
Declared(key, image, platform) ==
  [key |-> key, body |-> TRUE, hasImage |-> TRUE, image |-> image, platform |-> platform]
WithoutImage(key) ==
  [key |-> key, body |-> TRUE, hasImage |-> FALSE, image |-> <<>>, platform |-> NoPlatform]
WithoutBody(key) ==
  [key |-> key, body |-> FALSE, hasImage |-> FALSE, image |-> <<>>, platform |-> NoPlatform]

\* What a file holds: nothing, a document without services, text that does
\* not parse, or a services section in declaration order.
EmptyFile == [kind |-> "empty", services |-> <<>>]
NoServicesFile == [kind |-> "noservices", services |-> <<>>]
UnparsableFile == [kind |-> "unparsable", services |-> <<>>]
ServicesFile(services) == [kind |-> "services", services |-> services]

\* Property names that are array indices, and their values.
ArrayIndex == ("1" :> 1) @@ ("2" :> 2)

\* Line 110, Object.values: the values of the properties whose names are
\* array indices in ascending order, then the others in the order they were
\* added, which is the order of declaration.
ObjectValues(services) ==
  LET indexed == {i \in 1..Len(services) : services[i].key \in DOMAIN ArrayIndex}
      others == (1..Len(services)) \ indexed
      nthIndexed(k) ==
        CHOOSE i \in indexed :
          Cardinality({j \in indexed :
                         ArrayIndex[services[j].key] < ArrayIndex[services[i].key]}) = k - 1
      nthOther(k) == CHOOSE i \in others : Cardinality({j \in others : j < i}) = k - 1
  IN  [k \in 1..Len(services) |->
         IF k <= Cardinality(indexed) THEN services[nthIndexed(k)]
         ELSE services[nthOther(k - Cardinality(indexed))]]

RECURSIVE flatMapFiles(_, _)
\* Lines 94-115: a file contributes the values of its services section, and
\* nothing when it is empty, has no services section or does not parse.
flatMapFiles(composeFilePaths, contents) ==
  IF composeFilePaths = <<>> THEN <<>>
  ELSE (IF contents[composeFilePaths[1]].kind = "services"
        THEN ObjectValues(contents[composeFilePaths[1]].services)
        ELSE <<>>)
         \o flatMapFiles(Tail(composeFilePaths), contents)

RECURSIVE filterServices(_, _)
\* Lines 116-119.
filterServices(services, excludedImagePatterns) ==
  IF services = <<>> THEN <<>>
  ELSE IF services[1].hasImage
          /\ ~matchesExcludePattern(services[1].image, excludedImagePatterns)
  THEN <<Service(services[1].image, services[1].platform)>>
         \o filterServices(Tail(services), excludedImagePatterns)
  ELSE filterServices(Tail(services), excludedImagePatterns)

\* Lines 90-122.  Reading .image of a service without body throws, outside
\* the try of the file reading.
getComposeServicesFromFiles(composeFilePaths, contents, excludedImagePatterns) ==
  LET all == flatMapFiles(composeFilePaths, contents)
  IN  IF \E i \in 1..Len(all) : ~all[i].body
      THEN [threw |-> TRUE, services |-> <<>>]
      ELSE [threw |-> FALSE, services |-> uniqBy(filterServices(all, excludedImagePatterns))]

\* Image names of compose services, character by character.
ImgA1 == <<"a", ":", "1">>
ImgA2 == <<"a", ":", "2">>
ImgB1 == <<"b", ":", "1">>
ImgDot == <<"a", ".", "b">>
ImgX == <<"a", "x", "b">>
ImgLines == <<"a", "\n", "b">>

\* What the file a.yml may hold.
FirstFileContents ==
  { ServicesFile(<<Declared("web", ImgA1, NoPlatform), WithoutImage("app"),
                   Declared("db", ImgB1, LinuxAmd64)>>),
    ServicesFile(<<Declared("2", ImgDot, NoPlatform), Declared("1", ImgX, NoPlatform)>>),
    ServicesFile(<<Declared("web", ImgA1, LinuxAmd64), Declared("api", ImgA2, NoPlatform),
                   Declared("job", ImgA1, LinuxAmd64)>>),
    ServicesFile(<<WithoutBody("web"), Declared("db", ImgB1, NoPlatform)>>),
    ServicesFile(<<Declared("web", ImgLines, NoPlatform), Declared("db", ImgDot, NoPlatform)>>),
    UnparsableFile,
    EmptyFile }

\* What the file b.yml may hold.
SecondFileContents ==
  { ServicesFile(<<Declared("cache", ImgA1, NoPlatform), Declared("x", ImgX, NoPlatform)>>),
    NoServicesFile,
    UnparsableFile }

\* The compose-files input.
CandidatePaths == { <<>>, <<"a.yml">>, <<"a.yml", "b.yml">>, <<"b.yml", "a.yml">> }

\* The paths that may exist in the working directory.
WorkspacePaths == {"a.yml", "b.yml", "compose.yml", "docker-compose.yml"}

\* The exclude-images input.
ExcludeInputs ==
  { <<>>,
    <<ImgA1>>,
    << <<"a", ":", "*">> >>,
    << <<"*", ":", "1">> >>,
    << <<"a", "?", "b">> >>,
    << <<"a", ".", "*">> >>,
    << ImgB1, <<"a", "*">> >>,
    << <<"*">> >> }

contentsOf(first, second) ==
  [path \in WorkspacePaths \cup {"compose.yaml", "docker-compose.yaml"} |->
     IF path = "a.yml" THEN first
     ELSE IF path = "b.yml" THEN second
     ELSE IF path = "compose.yml"
     THEN ServicesFile(<<Declared("c", ImgB1, NoPlatform)>>)
     ELSE IF path = "docker-compose.yml"
     THEN ServicesFile(<<Declared("d", ImgA2, NoPlatform)>>)
     ELSE EmptyFile]

\* No discovery modelled: the images of the run are given.
NoDiscovery ==
  [step |-> "none", candidates |-> <<>>, existing |-> {}, contents |-> contentsOf(EmptyFile, EmptyFile),
   patterns |-> <<>>, paths |-> <<>>, threw |-> FALSE, services |-> <<>>]

runVars == <<targetImages, skipLatestCheck, forceRefresh, registry, regUpdates,
             localImages, files, cache, runPc, outcomes, completed, pc, manifest,
             tarHit, manifestHit, matched, hasSize, compared, log, result, previous>>

\* run, line 536.
DiscoverComposeFiles ==
  /\ discovery.step = "config"
  /\ discovery' = [discovery EXCEPT
                     !.step = "files",
                     !.paths = getComposeFilePathsToProcess(discovery.candidates, discovery.existing)]
  /\ UNCHANGED runVars

\* run, line 537; what getComposeServicesFromFiles throws is caught at line 590.
ExtractServices ==
  /\ discovery.step = "files"
  /\ LET r == getComposeServicesFromFiles(discovery.paths, discovery.contents, discovery.patterns)
     IN  discovery' = [discovery EXCEPT
                         !.step = IF r.threw THEN "thrown" ELSE "services",
                         !.threw = r.threw,
                         !.services = r.services]
  /\ UNCHANGED runVars

Init == InitOf(Batches) /\ discovery = NoDiscovery
InitBatch == InitOf(PairBatches) /\ discovery = NoDiscovery

Next ==
  \/ RunStart
  \/ RegistryUpdate
  \/ \E p \in Procs : ResolveDigest(p)
  \/ \E p \in Procs : FallbackRestore(p)
  \/ \E p \in Procs : FallbackLoad(p)
  \/ \E p \in Procs : FallbackInspect(p)
  \/ \E p \in Procs : RestoreArchive(p)
  \/ \E p \in Procs : RestoreManifest(p)
  \/ \E p \in Procs : Pull(p)
  \/ \E p \in Procs : VerifyDigest(p)
  \/ \E p \in Procs : SaveTar(p)
  \/ \E p \in Procs : SaveManifest(p)
  \/ \E p \in Procs : SaveCache(p)
  \/ \E p \in Procs : InspectLocal(p)
  \/ \E p \in Procs : Load(p)
  \/ \E p \in Procs : HitInspect(p)
  \/ \E p \in Procs : Validate(p)
  \/ \E p \in Procs : HitPull(p)

\* One image (or none) per run.
Spec == Init /\ [][Next]_vars

\* Two images per run, processed concurrently.
SpecBatch == InitBatch /\ [][Next]_vars

\* One image per run, the workflow run again and again.
NextOfRuns == Next \/ NextRun
SpecRuns == Init /\ [][NextOfRuns]_vars

\* The image list built by run() from compose services and additional images.
InitInputs == InitOf(InputBatches) /\ discovery = NoDiscovery
SpecInputs == InitInputs /\ [][Next]_vars

\* One image per run, image strings of every shape.
InitRefs == InitOf(RefBatches) /\ discovery = NoDiscovery
SpecRefs == InitRefs /\ [][Next]_vars

\* The discovery of the compose files and their services, before any image
\* is processed.
InitCompose ==
  /\ InitOf({<<>>}) /\ ~skipLatestCheck /\ ~forceRefresh
  /\ \E candidates \in CandidatePaths, existing \in SUBSET WorkspacePaths,
        first \in FirstFileContents, second \in SecondFileContents,
        patterns \in ExcludeInputs :
       discovery = [step |-> "config", candidates |-> candidates, existing |-> existing,
                    contents |-> contentsOf(first, second), patterns |-> patterns,
                    paths |-> <<>>, threw |-> FALSE, services |-> <<>>]
NextCompose == DiscoverComposeFiles \/ ExtractServices
SpecCompose == InitCompose /\ [][NextCompose]_vars

(***************************************************************************)
(* What a processor did                                                    *)
(***************************************************************************)
Done(p) == pc[p] = "done"
Succeeded(p, op) == CopiesIn(Call(op, TRUE), log[p])
Failed(p, op) == CopiesIn(Call(op, FALSE), log[p])
Calls(p, op) == Succeeded(p, op) + Failed(p, op)

\* The cache-store calls of a processor.
Restores(p) == Calls(p, "restoreArchive") + Calls(p, "restoreManifest") + Calls(p, "restoreFallback")
Saves(p) == Calls(p, "saveManifest") + Calls(p, "saveCache")
\* No runtime or store operation of the processor failed, the verification of
\* the digest after a pull included.
NothingFailed(p) ==
  \A op \in {"pull", "inspectRemote", "inspectRemoteAfterPull", "inspectRemoteForValidation",
             "verifyDigest", "inspectLocal", "saveTar", "load", "saveManifest", "saveCache",
             "readManifest"} : Failed(p, op) = 0

\* Every step of processor p.
StepOf(p) ==
  \/ ResolveDigest(p) \/ FallbackRestore(p) \/ FallbackLoad(p) \/ FallbackInspect(p)
  \/ RestoreArchive(p) \/ RestoreManifest(p) \/ Pull(p) \/ VerifyDigest(p) \/ SaveTar(p)
  \/ SaveManifest(p) \/ SaveCache(p) \/ InspectLocal(p) \/ Load(p) \/ HitInspect(p)
  \/ Validate(p) \/ HitPull(p)

(***************************************************************************)
(* Claims                                                                  *)
(***************************************************************************)
\* The case of C1: a digest was resolved, no refresh is forced, the exact-key
\* restore of the archive missed, and no runtime or store operation failed
\* (the remote inspection after the pull confirming the digest resolved).
C1_Case(p) ==
  /\ Done(p) /\ ~forceRefresh /\ manifest[p] # NoDigest
  /\ tarHit[p] = "miss" /\ NothingFailed(p)

\* C1: when the digest resolves, forceRefresh is off, the exact-key archive
\* restore misses and every runtime and store operation succeeds, pull is
\* invoked exactly once, the manifest snapshot and the archive are in the cache
\* store under their keys, and the outcome is success=true,
\* restoredFromCache=false.
C1_MissPullsAndSaves ==
  \A p \in Procs :
    C1_Case(p) =>
      /\ Calls(p, "pull") = 1
      /\ Succeeded(p, "saveManifest") = 1 /\ Succeeded(p, "saveCache") = 1
      /\ manifestCacheKey(p) \in DOMAIN cache
      /\ cache[manifestCacheKey(p)] = ManifestContent(manifest[p])
      /\ imageCacheKey(p) \in DOMAIN cache
      /\ cache[imageCacheKey(p)] = ImageContent(completeImageName(p), platformOf(p), manifest[p])
      /\ result[p].success /\ ~result[p].restoredFromCache

C1_Witness == \E p \in Procs : C1_Case(p) /\ runPc = "done"

\* The case of C2: both restores hit, verification is on, and validation read
\* a cached manifest and a remote manifest with the same digest.
C2_Case(p) ==
  /\ Done(p) /\ manifest[p] # NoDigest /\ ~skipLatestCheck
  /\ tarHit[p] = "hit" /\ manifestHit[p] = "hit"
  /\ compared[p].read /\ compared[p].cachedPresent /\ compared[p].remotePresent
  /\ compared[p].cachedDigest = compared[p].remoteDigest

\* C2: on a cache hit with verification on, when the remote digest fetched
\* during validation equals the cached manifest's digest, no pull is invoked
\* and the outcome is success=true, restoredFromCache=true.
C2_ConfirmedHitNoPull ==
  \A p \in Procs :
    C2_Case(p) => Calls(p, "pull") = 0 /\ result[p].success /\ result[p].restoredFromCache

C2_Witness == \E p \in Procs : C2_Case(p) /\ runPc = "done"

\* The case of C3: validation read a cached manifest and a remote manifest
\* whose digests differ.
C3_Case(p) ==
  /\ Done(p) /\ tarHit[p] = "hit"
  /\ compared[p].read /\ compared[p].cachedPresent /\ compared[p].remotePresent
  /\ compared[p].cachedDigest # compared[p].remoteDigest

C4_Case(p) ==
  /\ Done(p) /\ Failed(p, "inspectRemote") = 1 /\ manifest[p] = NoDigest
  /\ skipLatestCheck /\ ~forceRefresh
  /\ Succeeded(p, "restoreFallback") = 1 /\ Succeeded(p, "load") = 1

C5_Case(p) == Done(p) /\ Failed(p, "inspectRemote") >= 1 /\ manifest[p] = NoDigest /\ ~skipLatestCheck

\* C5: when remote inspection yields no digest and skipDigestVerification is
\* false, the outcome is success=false and no cache restore, cache save, pull
\* or load is performed for the image.
C5_NoDigestNoCacheAccess ==
  \A p \in Procs :
    C5_Case(p) =>
      /\ ~result[p].success
      /\ Restores(p) = 0 /\ Saves(p) = 0 /\ Calls(p, "pull") = 0 /\ Calls(p, "load") = 0

\* No digest, verification on, although the cache store holds entries.
C5_Witness == \E p \in Procs : C5_Case(p) /\ runPc = "done" /\ DOMAIN cache # {}

\* A valid cache entry: one under the key derived from the digest resolved,
\* which a lookup would hit.
HasValidEntry(p) == manifest[p] # NoDigest /\ imageCacheKey(p) \in DOMAIN cache

\* C6: with forceRefresh no cache restore is ever issued for the image, and
\* with a valid cache entry in the store the processor still pulls, exactly
\* once, before it returns.
C6_ForceRefreshSkipsLookup ==
  \A p \in Procs :
    forceRefresh =>
      /\ Restores(p) = 0
      /\ (Done(p) /\ HasValidEntry(p)) => Calls(p, "pull") = 1

\* A forced refresh that returned although the entry of the resolved digest
\* was in the store from the start (its own save found the key taken).
C6_Witness ==
  \E p \in Procs :
    forceRefresh /\ HasValidEntry(p) /\ Done(p) /\ result[p].success /\ Failed(p, "saveCache") = 1

\* A processor whose promise is still pending.
Pending(p) == pc[p] \notin {"done", "thrown"}

\* What a step of the batch leaves alone in processor q: a step changes the
\* local state of q only if it is a step of q, and the outcome q has returned
\* is never changed again.
LeavesAlone(q) ==
  /\ localVars(q)' # localVars(q) => StepOf(q)
  /\ Done(q) => pc'[q] = "done" /\ result'[q] = result[q]

\* A sibling of p has returned a failure.
SiblingFailed(p) == \E q \in Procs : q # p /\ Done(q) /\ ~result[q].success

C8_OutcomesInInputOrder ==
  runPc = "done" =>
    /\ Len(outcomes) = Len(targetImages)
    /\ \A i \in Procs :
         /\ outcomes[i] = result[i]
         /\ outcomes[i].imageName = targetImages[i].image
         /\ outcomes[i].platform = targetImages[i].platform

\* The processor of the second image returned before the one of the first.
C8_Witness ==
  /\ runPc = "done" /\ completed = <<2, 1>>
  /\ targetImages[1] # targetImages[2]
  /\ outcomes[1] # outcomes[2]

\* C9: whatever external operation fails, no processor rejects: a processor
\* that has ended has returned an outcome value, and the run is never marked
\* failed.
C9_NoFailureThrows ==
  /\ runPc # "failed"
  /\ \A p \in Procs :
       /\ pc[p] # "thrown"
       /\ Done(p) => result[p] # NoResult /\ result[p].imageName = completeImageName(p)
  /\ runPc = "done" => \A i \in Procs : outcomes[i] # NoResult

\* A run that ended although one image failed on a pull that threw nothing to
\* the coordinator, and another image failed on its load.
C9_Witness ==
  /\ runPc = "done"
  /\ \E p, q \in Procs :
       /\ p # q
       /\ Failed(p, "pull") = 1 /\ ~outcomes[p].success
       /\ Failed(q, "load") = 1 /\ ~outcomes[q].success

\* C10: when one image name is declared for two platforms, the archive a
\* processor saved under its platform's cache key is the image pulled for that
\* platform.
C10_ArchiveOfOwnPlatform ==
  \A p, q \in Procs :
    (/\ p # q
     /\ completeImageName(p) = completeImageName(q)
     /\ platformOf(p) # platformOf(q)
     /\ Succeeded(p, "saveCache") = 1) =>
      /\ cache[imageCacheKey(p)].kind = "image"
      /\ cache[imageCacheKey(p)].plat = platformOf(p)

\* C11: two distinct entries of the batch never derive the same image cache
\* key or the same archive path, and so no two processors of a batch save the
\* archive under the same cache key.
C11_DistinctEntriesDistinctKeys ==
  \A p, q \in Procs :
    (p # q /\ targetImages[p] # targetImages[q]) =>
      /\ (manifest[p] # NoDigest /\ manifest[q] # NoDigest) =>
           /\ imageCacheKey(p) # imageCacheKey(q)
           /\ imageTarPath(p) # imageTarPath(q)
      /\ (Calls(p, "saveCache") >= 1 /\ Calls(q, "saveCache") >= 1) =>
           imageCacheKey(p) # imageCacheKey(q)

\* The image cache key of processor p for a digest.
imageCacheKeyOf(p, digest) ==
  generateCacheKey(cacheKeyPrefix, imageNamePart(p), imageTagOrLatest(p), platformOf(p), digest)

\* The case of C12: the run before resolved a digest d, this run resolved
\* another digest d' with forceRefresh off, and none of its operations failed.
C12_Case(p) ==
  /\ previous[p].ran /\ previous[p].digest # NoDigest
  /\ Done(p) /\ ~forceRefresh
  /\ manifest[p] # NoDigest /\ manifest[p] # previous[p].digest
  /\ NothingFailed(p)

\* No step changes or removes an entry of the cache store.
EntriesKept == \A k \in DOMAIN cache : k \in DOMAIN cache' /\ cache'[k] = cache[k]

\* C12: when the digest of the tag changed from d to d' since the run before,
\* this run misses on the key derived from d', pulls once and creates the
\* entry of d' under that key, which is not the key of d; and no step of any
\* run overwrites an entry, so what is stored under the key of d stays.
C12_NewDigestNewEntry ==
  /\ [](\A p \in Procs :
          C12_Case(p) =>
            /\ tarHit[p] = "miss" /\ Calls(p, "pull") = 1
            /\ imageCacheKeyOf(p, manifest[p]) # imageCacheKeyOf(p, previous[p].digest)
            /\ imageCacheKeyOf(p, manifest[p]) \in DOMAIN cache
            /\ cache[imageCacheKeyOf(p, manifest[p])]
                 = ImageContent(completeImageName(p), platformOf(p), manifest[p])
            /\ imageCacheKeyOf(p, previous[p].digest) \in DOMAIN cache =>
                 cache[imageCacheKeyOf(p, previous[p].digest)].dig = previous[p].digest)
  /\ [][EntriesKept]_vars

\* The later run is over and the store holds the entry of d and the entry of d'.
C12_Witness ==
  \E p \in Procs :
    /\ C12_Case(p) /\ runPc = "done"
    /\ imageCacheKeyOf(p, previous[p].digest) \in DOMAIN cache
    /\ cache[imageCacheKeyOf(p, previous[p].digest)].kind = "image"
    /\ cache[imageCacheKeyOf(p, manifest[p])].dig = manifest[p]

\* C13 as stated: after a run that took the digest-mismatch branch, the next
\* run of the image (the registry serving the new digest, every operation
\* succeeding) takes the mismatch branch again and pulls again, and saves
\* nothing.
C13_Original ==
  \A p \in Procs :
    (/\ previous[p].mismatch /\ Done(p) /\ NothingFailed(p)
     /\ manifest[p] # NoDigest /\ manifest[p] # previous[p].digest) =>
      tookMismatchBranch(p) /\ Calls(p, "pull") = 1 /\ Saves(p) = 0

\* C13, amended: after a run that took the digest-mismatch branch the entry
\* under the old key is as it was, and the next run derives its key from the
\* digest it resolves: resolving a new digest it misses on the new key and
\* (its operations succeeding) pulls once and saves the image under that key;
\* it takes the mismatch branch again only if it resolves the old digest and
\* its validation reads another remote digest than the one it resolved.
C13_NextRunMissesAndSaves ==
  \A p \in Procs :
    (previous[p].mismatch /\ Done(p) /\ manifest[p] # NoDigest) =>
      /\ cache[imageCacheKeyOf(p, previous[p].digest)].dig = previous[p].digest
      /\ manifest[p] # previous[p].digest =>
           /\ tarHit[p] = "miss" /\ ~tookMismatchBranch(p)
           /\ NothingFailed(p) =>
                /\ Calls(p, "pull") = 1
                /\ result[p].success /\ ~result[p].restoredFromCache
                /\ cache[imageCacheKeyOf(p, manifest[p])]
                     = ImageContent(completeImageName(p), platformOf(p), manifest[p])
      /\ tookMismatchBranch(p) =>
           /\ manifest[p] = previous[p].digest
           /\ compared[p].remoteDigest # manifest[p]

\* The run after a mismatch is over: it pulled and saved under the new key.
C13_Witness ==
  \E p \in Procs :
    /\ previous[p].mismatch /\ Done(p) /\ NothingFailed(p) /\ runPc = "done"
    /\ manifest[p] # previous[p].digest
    /\ result[p].success /\ Succeeded(p, "saveCache") = 1

\* C14: on a cache hit whose cached digest differs from the registry's digest
\* (every operation succeeding), the image is pulled, saved to an archive,
\* the archive and the manifest are saved to the cache store, and the outcome
\* reports the image as pulled, not as restored from the cache.
C14_MismatchSavesAndMarksPulled ==
  \A p \in Procs :
    (Done(p) /\ tookMismatchBranch(p) /\ compared[p].remoteDigest # NoDigest /\ NothingFailed(p)) =>
      /\ Succeeded(p, "pull") = 1
      /\ Succeeded(p, "saveTar") = 1
      /\ Succeeded(p, "saveManifest") = 1 /\ Succeeded(p, "saveCache") = 1
      /\ result[p].success /\ ~result[p].restoredFromCache

\* C15: a pull is invoked for an image only if forceRefresh is set, or the
\* exact-key archive restore missed, or the validation of a cache hit found
\* the digests to differ, and then once; a malformed name, a digest that could
\* not be resolved (degraded fallback included), and a hit that is trusted or
\* confirmed invoke no pull.
C15_PullOnlyWhenNeeded ==
  \A p \in Procs :
    /\ Calls(p, "pull") <= 1
    /\ Calls(p, "pull") = 1 =>
         forceRefresh \/ tarHit[p] = "miss" \/ tookMismatchBranch(p)
    /\ imageNamePart(p) = <<>> => Calls(p, "pull") = 0
    /\ (pc[p] # "start" /\ manifest[p] = NoDigest) => Calls(p, "pull") = 0
    /\ (Done(p) /\ tarHit[p] = "hit" /\ ~tookMismatchBranch(p)) => Calls(p, "pull") = 0

\* The run is over; the image was restored, its digests differed, and it was
\* pulled although no refresh was forced and the restore had hit.
C15_Witness ==
  \E p \in Procs :
    /\ runPc = "done" /\ ~forceRefresh /\ tarHit[p] = "hit"
    /\ tookMismatchBranch(p) /\ Calls(p, "pull") = 1

C17_NoDuplicateTargets ==
  \A p, q \in Procs :
    p # q => ~(/\ targetImages[p].image = targetImages[q].image
               /\ targetImages[p].platform = targetImages[q].platform)

\* The digest-less key the form gives each image of the inputs, written out.
C18_ExpectedPrefix(service) ==
  IF service.image \in {ImgDb, ImgDbLatest}
  THEN <<"docker", "-", "compose", "-", "image", "-", "db", "-", "latest", "-",
         "linux", "-", "amd64", "-", "none">>
  ELSE IF service.image \in {ImgDashName, ImgDashTag}
  THEN <<"docker", "-", "compose", "-", "image", "-", "a", "-", "b", "-", "c", "-",
         "linux", "-", "amd64", "-", "none">>
  ELSE <<"docker", "-", "compose", "-", "image", "-", "reg", "-", "io", "-", "app", "-",
         "1", ".", "0", "-", "linux", "-", "arm", "-", "v7">>

\* The digest segment: the first 12 characters after the algorithm label, or
\* the literal none.
C18_DigestSegment(digest) ==
  IF digest = NoDigest THEN <<"none">>
  ELSE [i \in 1..12 |-> digest[i + 2]]

C19_EarlierSegments(key, digest) ==
  SubSeq(key, 1, Len(key) - Len(extractDigestPrefix(digest)))

\* C19: changing only the digest changes only the final segment of the key,
\* and two derivations that differ in name, tag or platform never give the
\* same key, names and tags that contain "-" included.
C19_KeysInjective ==
  /\ \A p \in Procs : \A d, e \in {Digests[i] : i \in 1..Len(Digests)} \cup {NoDigest} :
       /\ C19_EarlierSegments(imageCacheKeyOf(p, d), d)
            = C19_EarlierSegments(imageCacheKeyOf(p, e), e)
       /\ extractDigestPrefix(d) # extractDigestPrefix(e)
            => imageCacheKeyOf(p, d) # imageCacheKeyOf(p, e)
  /\ \A p, q \in Procs :
       (\/ imageNamePart(p) # imageNamePart(q)
        \/ imageTagOrLatest(p) # imageTagOrLatest(q)
        \/ ParsePlatform(platformOf(p)) # ParsePlatform(platformOf(q)))
         => \A d, e \in {Digests[i] : i \in 1..Len(Digests)} \cup {NoDigest} :
              imageCacheKeyOf(p, d) # imageCacheKeyOf(q, e)

\* An entry of the cache store was saved for the name, tag and platform of
\* processor p.
C20_BelongsTo(entry, p) ==
  LET parts == Split(entry.name, ":")
  IN  /\ entry.kind = "image"
      /\ parts[1] = imageNamePart(p)
      /\ (IF Len(parts) >= 2 THEN parts[2] ELSE <<"latest">>) = imageTagOrLatest(p)
      /\ ParsePlatform(entry.plat) = ParsePlatform(platformOf(p))

\* C20: the key the fallback restore matched by its digest-less prefix is the
\* image's own key for some digest, and what is stored under it was saved for
\* the same name, tag and platform.
C20_FallbackMatchesOwnImage ==
  \A p \in Procs :
    matched[p] # <<>> =>
      /\ \E i \in 1..Len(Digests) : matched[p] = imageCacheKeyOf(p, Digests[i])
      /\ C20_BelongsTo(cache[matched[p]], p)

\* The position of the last ":" of an image string, 0 when it has none.
C21_LastColon(s) ==
  IF \E i \in 1..Len(s) : s[i] = ":"
  THEN CHOOSE k \in 1..Len(s) : s[k] = ":" /\ \A j \in (k + 1)..Len(s) : s[j] # ":"
  ELSE 0

\* C21: the name is what stands before the last ":" of the image string and
\* the tag what stands after it, the tag being latest when there is no ":";
\* for every image string, those with several ":" included.
C21_SplitOnLastColon ==
  \A p \in Procs :
    LET s == completeImageName(p)
        k == C21_LastColon(s)
    IN  IF k = 0
        THEN imageNamePart(p) = s /\ imageTagOrLatest(p) = <<"latest">>
        ELSE /\ imageNamePart(p) = SubSeq(s, 1, k - 1)
             /\ imageTagOrLatest(p) = SubSeq(s, k + 1, Len(s))

\* C22: an image string with nothing before its first ":" gives a failure
\* outcome with the invalid-format error, and its processor issues no remote
\* inspection, pull, load, restore or save: it makes no call at all, resolves
\* no digest and leaves the temporary directory and the runtime as they were.
C22_EmptyNameRejectedFirst ==
  \A p \in Procs :
    imageNamePart(p) = <<>> =>
      /\ log[p] = EmptyBag
      /\ pc[p] \in {"start", "done"}
      /\ manifest[p] = NoDigest /\ tarHit[p] = "pending" /\ matched[p] = <<>>
      /\ Len(targetImages) = 1 =>
           /\ files = AsFunction({})
           /\ \A img \in DOMAIN localImages : localImages[img] = NoContent
      /\ Done(p) =>
           /\ ~result[p].success /\ ~result[p].restoredFromCache
           /\ result[p].error = "Invalid image name format"
           /\ result[p].cacheKey = <<>> /\ result[p].digest = NoDigest
           /\ result[p].imageName = completeImageName(p)

\* The processor of ":v1" returned.
C22_Witness ==
  \E p \in Procs :
    /\ completeImageName(p) = ImgBad /\ imageNamePart(p) = <<>>
    /\ Done(p) /\ result[p].error = "Invalid image name format"
    /\ runPc = "done"

RECURSIVE C23_Declarations(_, _)
\* The services the files declare, in file order then declaration order; a
\* file that is empty, has no services section or does not parse has none.
C23_Declarations(paths, contents) ==
  IF paths = <<>> THEN <<>>
  ELSE (IF contents[paths[1]].kind = "services" THEN contents[paths[1]].services ELSE <<>>)
         \o C23_Declarations(Tail(paths), contents)

\* C23: getComposeServicesFromFiles returns, in file order then declaration
\* order, exactly the services that declare an image no exclusion pattern
\* matches, only the first of those equal in image and platform; files that are
\* empty, have no services section or do not parse contribute nothing and the
\* other files are still read.
C23_ServicesInDeclarationOrder ==
  discovery.step \in {"services", "thrown"} =>
    LET decls == C23_Declarations(discovery.paths, discovery.contents)
        wanted(i) == /\ decls[i].hasImage
                     /\ ~matchesExcludePattern(decls[i].image, discovery.patterns)
        first(i) == /\ wanted(i)
                    /\ \A j \in 1..(i - 1) :
                         wanted(j) => \/ decls[j].image # decls[i].image
                                      \/ decls[j].platform # decls[i].platform
        kept == {i \in 1..Len(decls) : first(i)}
        nth(k) == CHOOSE i \in kept : Cardinality({j \in kept : j < i}) = k - 1
    IN  /\ ~discovery.threw
        /\ discovery.services
             = [k \in 1..Cardinality(kept) |-> Service(decls[nth(k)].image, decls[nth(k)].platform)]

\* Whether kept is src without some of its elements, in the order of src,
\* holding exactly the elements of src that exist.
C24_ExistingInOrder(kept, src, existing) ==
  \E at \in [1..Len(kept) -> 1..Len(src)] :
    /\ \A i \in 1..Len(kept) : kept[i] = src[at[i]]
    /\ \A i, j \in 1..Len(kept) : i < j => at[i] < at[j]
    /\ {at[i] : i \in 1..Len(kept)} = {j \in 1..Len(src) : src[j] \in existing}

\* C24: getComposeFilePathsToProcess returns the provided paths that exist, in
\* input order; the default names are looked at only when no path is provided,
\* so provided paths of which none exists give the empty list.
C24_ProvidedPathsThatExist ==
  discovery.step \in {"files", "services", "thrown"} =>
    /\ discovery.candidates # <<>> =>
         C24_ExistingInOrder(discovery.paths, discovery.candidates, discovery.existing)
    /\ discovery.candidates = <<>> =>
         C24_ExistingInOrder(discovery.paths, DEFAULT_COMPOSE_FILE_NAMES, discovery.existing)
    /\ (/\ discovery.candidates # <<>>
        /\ \A i \in 1..Len(discovery.candidates) : discovery.candidates[i] \notin discovery.existing)
         => discovery.paths = <<>>

\* Two paths were provided, neither exists, a default file does, and the
\* list returned is empty.
C24_Witness ==
  /\ discovery.step = "files"
  /\ Len(discovery.candidates) = 2
  /\ \A i \in 1..Len(discovery.candidates) : discovery.candidates[i] \notin discovery.existing
  /\ "compose.yml" \in discovery.existing
  /\ discovery.paths = <<>>

\* Whether the pattern, read as a glob, matches the whole of s: s is cut into
\* one piece per pattern character, any piece for "*", one character for "?",
\* the character itself for any other.
C25_GlobMatches(pattern, s) ==
  \E cut \in [0..Len(pattern) -> 0..Len(s)] :
    /\ cut[0] = 0 /\ cut[Len(pattern)] = Len(s)
    /\ \A i \in 1..Len(pattern) :
         /\ cut[i - 1] <= cut[i]
         /\ \/ pattern[i] = "*"
            \/ /\ cut[i] = cut[i - 1] + 1
               /\ pattern[i] = "?" \/ s[cut[i]] = pattern[i]

\* The image names the files of the working directory declare.
C25_Images ==
  UNION { {c.services[i].image : i \in 1..Len(c.services)} :
          c \in {discovery.contents[g] : g \in DOMAIN discovery.contents} } \ {<<>>}

\* C25: matchesExcludePattern is true exactly when some pattern matches the
\* whole image name, "*" standing for any sequence of characters, "?" for one
\* character and any other character for itself; no pattern matches nothing.
C25_MatchesAsGlob ==
  discovery.step = "services" =>
    \A image \in C25_Images :
      matchesExcludePattern(image, discovery.patterns)
        = (\E k \in 1..Len(discovery.patterns) : C25_GlobMatches(discovery.patterns[k], image))

\* The processor went through pullAndCacheImage: a digest was resolved and
\* the archive was not restored or a refresh was forced.
C26_PullAndCache(p) ==
  /\ Done(p) /\ manifest[p] # NoDigest
  /\ forceRefresh \/ tarHit[p] = "miss"

\* The steps of pullAndCacheImage and the reason the outcome carries when the
\* step fails.
C26_Steps ==
  { <<"pull", "Failed to pull image">>, <<"verifyDigest", "Digest mismatch">>,
    <<"saveTar", "Failed to save image to tar">>, <<"saveManifest", "Failed to save manifest">>,
    <<"saveCache", "Failed to save cache">>, <<"inspectLocal", "Failed to inspect image">> }

\* C26 as stated: in the pull-and-cache path the failure of any step, the
\* saves to the cache store and the local inspection included, gives an
\* outcome with success=false carrying that step's reason.
C26_Original ==
  \A p \in Procs :
    C26_PullAndCache(p) =>
      \A step \in C26_Steps :
        Failed(p, step[1]) >= 1 => ~result[p].success /\ result[p].error = step[2]

\* C26, amended: a failed pull, a failed verification of the digest after the
\* pull or a failed save to the archive ends the path at once with
\* success=false and that step's reason, no later step being issued; a failure
\* to persist the manifest or the archive to the cache store, or of the local
\* inspection, is not reported: the path goes on and its outcome is
\* success=true, without size when the inspection failed.
C26_FailureShortCircuits ==
  \A p \in Procs :
    C26_PullAndCache(p) =>
      /\ Calls(p, "pull") = 1
      /\ ~result[p].restoredFromCache /\ result[p].cacheKey = imageCacheKey(p)
      /\ Failed(p, "pull") = 1 =>
           /\ ~result[p].success /\ result[p].error = "Failed to pull image"
           /\ Calls(p, "verifyDigest") = 0 /\ Calls(p, "saveTar") = 0
           /\ Saves(p) = 0 /\ Calls(p, "inspectLocal") = 0
      /\ Failed(p, "verifyDigest") = 1 =>
           /\ ~result[p].success /\ result[p].error = "Digest mismatch"
           /\ Calls(p, "saveTar") = 0 /\ Saves(p) = 0 /\ Calls(p, "inspectLocal") = 0
      /\ Failed(p, "saveTar") = 1 =>
           /\ ~result[p].success /\ result[p].error = "Failed to save image to tar"
           /\ Saves(p) = 0 /\ Calls(p, "inspectLocal") = 0
      /\ (Failed(p, "pull") = 0 /\ Failed(p, "verifyDigest") = 0 /\ Failed(p, "saveTar") = 0) =>
           /\ result[p].success /\ result[p].error = ""
           /\ Calls(p, "saveManifest") = 1 /\ Calls(p, "saveCache") = 1
           /\ Calls(p, "inspectLocal") = 1
           /\ result[p].imageSize = (Succeeded(p, "inspectLocal") = 1)

\* The pull and the verification succeeded, the save to the archive failed and
\* the outcome is the failure of that step.
C26_Witness ==
  \E p \in Procs :
    /\ C26_PullAndCache(p)
    /\ Succeeded(p, "pull") = 1 /\ Succeeded(p, "verifyDigest") = 1
    /\ Failed(p, "saveTar") = 1
    /\ ~result[p].success /\ result[p].error = "Failed to save image to tar"

\* C27: a processor saves to the cache store under the keys of the digest d
\* it resolved only after its pull succeeded, the inspection after the pull
\* gave exactly d and the save to the archive succeeded; when the digest after
\* the pull differs or is absent the outcome is a failure and nothing is
\* saved; hence the archive stored under the key of d is an image of digest d.
C27_SavedOnlyWhenVerified ==
  \A p \in Procs :
    /\ Saves(p) >= 1 =>
         /\ Succeeded(p, "pull") = 1 /\ Succeeded(p, "verifyDigest") = 1
         /\ Succeeded(p, "saveTar") = 1
    /\ (Done(p) /\ Failed(p, "verifyDigest") = 1) =>
         /\ ~result[p].success /\ result[p].error = "Digest mismatch"
         /\ Saves(p) = 0
    /\ Succeeded(p, "saveCache") = 1 =>
         /\ imageCacheKey(p) \in DOMAIN cache
         /\ cache[imageCacheKey(p)].kind = "image"
         /\ cache[imageCacheKey(p)].dig = manifest[p]

\* The archive was restored by its exact key and its load failed.
C28_Case(p) == tarHit[p] = "hit" /\ Failed(p, "load") >= 1

\* C28: when the archive restored on a cache hit fails to load, the outcome
\* is success=false with the load error, and the image is not retried as a
\* miss: the processor is done with the failed load, with no pull, no remote
\* inspection after the first one, no local inspection and no cache save.
C28_FailedLoadNotRetried ==
  \A p \in Procs :
    C28_Case(p) =>
      /\ Done(p) /\ Calls(p, "load") = 1
      /\ ~result[p].success /\ ~result[p].restoredFromCache
      /\ result[p].error = "Failed to load image from cache"
      /\ result[p].digest = manifest[p]
      /\ Calls(p, "pull") = 0 /\ Saves(p) = 0 /\ Calls(p, "saveTar") = 0
      /\ Calls(p, "inspectRemote") = 1
      /\ Calls(p, "inspectRemoteAfterPull") = 0 /\ Calls(p, "inspectRemoteForValidation") = 0
      /\ Calls(p, "inspectLocal") = 0

\* A restored archive failed to load and the run ended.
C28_Witness ==
  \E p \in Procs :
    /\ C28_Case(p) /\ Done(p) /\ runPc = "done"
    /\ Succeeded(p, "restoreArchive") = 1
    /\ ~result[p].success

\* The archive was restored by its exact key and loaded.
C29_LoadedHit(p) == tarHit[p] = "hit" /\ Succeeded(p, "load") = 1

\* C29: on a cache hit with skipDigestVerification enabled and a successful
\* load the registry is not contacted after the first resolution of the
\* digest (no second remote inspection, no pull) and the outcome is
\* success=true, restoredFromCache=true, whether or not a manifest snapshot
\* was restored.
C29_SkipTrustsCache ==
  \A p \in Procs :
    (C29_LoadedHit(p) /\ skipLatestCheck) =>
      /\ Calls(p, "inspectRemote") = 1
      /\ Calls(p, "inspectRemoteAfterPull") = 0 /\ Calls(p, "inspectRemoteForValidation") = 0
      /\ Calls(p, "pull") = 0 /\ Calls(p, "readManifest") = 0
      /\ pc[p] \in {"hitInspect", "done"}
      /\ Done(p) =>
           /\ result[p].success /\ result[p].restoredFromCache
           /\ result[p].digest = manifest[p] /\ result[p].error = ""

\* With verification skipped, an archive and its manifest snapshot were both
\* restored, the archive loaded and the outcome returned.
C29_Witness ==
  \E p \in Procs :
    /\ C29_LoadedHit(p) /\ skipLatestCheck /\ manifestHit[p] = "hit"
    /\ Done(p) /\ result[p].success /\ result[p].restoredFromCache

\* C30: on a cache hit with verification enabled where the archive was
\* restored and loaded but no manifest snapshot was restored, the outcome is
\* success=true, restoredFromCache=true, with no further remote inspection
\* and no pull.
C30_NoSnapshotTrustsCache ==
  \A p \in Procs :
    (C29_LoadedHit(p) /\ ~skipLatestCheck /\ manifestHit[p] = "miss") =>
      /\ Calls(p, "inspectRemote") = 1
      /\ Calls(p, "inspectRemoteAfterPull") = 0 /\ Calls(p, "inspectRemoteForValidation") = 0
      /\ Calls(p, "pull") = 0 /\ Calls(p, "readManifest") = 0
      /\ pc[p] \in {"hitInspect", "done"}
      /\ Done(p) =>
           /\ result[p].success /\ result[p].restoredFromCache
           /\ result[p].digest = manifest[p] /\ result[p].error = ""

\* With verification enabled, the archive was restored and loaded, the
\* manifest snapshot was not restored, and the outcome returned.
C30_Witness ==
  \E p \in Procs :
    /\ C29_LoadedHit(p) /\ ~skipLatestCheck /\ manifestHit[p] = "miss"
    /\ Failed(p, "restoreManifest") = 1
    /\ Done(p) /\ result[p].success /\ result[p].restoredFromCache

\* The degraded fallback was attempted and its prefix restore found nothing,
\* or the archive it restored failed to load.
C31_Case(p) ==
  \/ Failed(p, "restoreFallback") >= 1
  \/ Succeeded(p, "restoreFallback") >= 1 /\ Failed(p, "load") >= 1

\* C31: when no digest is resolved and the degraded fallback finds nothing
\* or fails to load what it restored, the processor is done at once with
\* success=false, restoredFromCache=false and the could-not-get-digest
\* error, and no pull is attempted.
C31_FallbackFailureIsNoDigest ==
  \A p \in Procs :
    C31_Case(p) =>
      /\ manifest[p] = NoDigest /\ Done(p)
      /\ ~result[p].success /\ ~result[p].restoredFromCache
      /\ result[p].error = "Could not get digest"
      /\ result[p].cacheKey = <<>> /\ result[p].digest = NoDigest
      /\ Calls(p, "pull") = 0 /\ Calls(p, "inspectLocal") = 0 /\ Saves(p) = 0
      /\ Succeeded(p, "warnNoDigest") = 1

\* The fallback restored an archive, the load of it failed, and the run ended.
C31_Witness ==
  \E p \in Procs :
    /\ Succeeded(p, "restoreFallback") = 1 /\ Failed(p, "load") = 1
    /\ Done(p) /\ runPc = "done" /\ ~result[p].success

\* The first remote inspection gave no digest while a refresh is forced.
C32_Case(p) == Failed(p, "inspectRemote") >= 1 /\ pc[p] # "thrown" /\ forceRefresh

\* C32: when no digest is resolved and forceRefresh is set, the degraded
\* fallback is never attempted, skipDigestVerification or not: the processor
\* is done at once with success=false, with no cache restore, no load, no
\* pull and no cache save.
C32_ForcedRefreshNeverFallsBack ==
  \A p \in Procs :
    C32_Case(p) =>
      /\ Done(p) /\ manifest[p] = NoDigest
      /\ ~result[p].success /\ ~result[p].restoredFromCache
      /\ result[p].error = "Could not get digest"
      /\ Restores(p) = 0 /\ Calls(p, "load") = 0
      /\ Calls(p, "pull") = 0 /\ Calls(p, "saveTar") = 0 /\ Saves(p) = 0

\* No digest with both forceRefresh and skipDigestVerification set, while the
\* store holds an entry the digest-less prefix would match.
C32_Witness ==
  \E p \in Procs :
    /\ C32_Case(p) /\ skipLatestCheck /\ runPc = "done"
    /\ restoreFromCache(cacheKeyPrefixWithoutDigest(p) \o <<"-">> \o FallbackDigest,
                        <<cacheKeyPrefixWithoutDigest(p)>>) # {CacheMiss}

\* Both restores are back and the exact-key restore of the archive reported
\* no success.
C33_Case(p) == tarHit[p] = "miss" /\ manifestHit[p] # "pending"

\* The steps of pullAndCacheImage, and the ways it fails.
C33_PullPath == {"pull", "verify", "saveTar", "saveManifest", "saveCache", "inspectLocal"}
C33_PullErrors == {"Failed to pull image", "Digest mismatch", "Failed to save image to tar"}

\* C33: when the exact-key archive restore reports no success (no entry, or
\* the store failed), the image goes the pull-and-cache way as for a miss,
\* the manifest snapshot restored or not: it is pulled once, never loaded or
\* validated, it fails only by a failure of pull-and-cache, and it succeeds
\* with restoredFromCache=false when pull, verification and archive save do.
C33_FailedRestoreIsAMiss ==
  \A p \in Procs :
    C33_Case(p) =>
      /\ pc[p] \in C33_PullPath \cup {"done", "thrown"}
      /\ Calls(p, "load") = 0 /\ Calls(p, "readManifest") = 0
      /\ Calls(p, "inspectRemoteForValidation") = 0
      /\ Calls(p, "pull") = (IF pc[p] = "pull" THEN 0 ELSE 1)
      /\ Done(p) =>
           /\ ~result[p].restoredFromCache
           /\ result[p].cacheKey = imageCacheKey(p) /\ result[p].digest = manifest[p]
           /\ ~result[p].success => result[p].error \in C33_PullErrors
           /\ result[p].success <=>
                Succeeded(p, "pull") = 1 /\ Succeeded(p, "verifyDigest") = 1 /\ Succeeded(p, "saveTar") = 1

\* The archive restore failed although the store holds the entry, the manifest
\* snapshot was restored, and the image was pulled and reported as not restored.
C33_Witness ==
  \E p \in Procs :
    /\ C33_Case(p) /\ manifestHit[p] = "hit" /\ imageCacheKey(p) \in DOMAIN cache
    /\ Done(p) /\ runPc = "done" /\ result[p].success

\* The gateway operations as the processors log them.
C34_GatewayOps ==
  {"pull", "inspectRemote", "inspectRemoteAfterPull", "inspectRemoteForValidation",
   "inspectLocal", "saveTar", "load"}

\* What each operation makes of every way its command can end: it never
\* rejects, it runs the command once, and a command that did not end well gives
\* false or nothing.
C34_Converts ==
  /\ \A raw \in ExecOutcomes :
       /\ \A r \in {pullImage(raw), saveImageToTar(raw), loadImageFromTar(raw)} :
            ~r.threw /\ r.commands = 1 /\ (r.ok <=> raw = "ok")
       /\ LET r == inspectImageLocal(raw)
          IN  ~r.threw /\ r.commands = 1 /\ (r.present <=> raw = "ok")
  /\ \A raw \in InspectOutcomes, i \in DOMAIN Digests :
       LET r == inspectImageRemote(raw, Digests[i])
       IN  /\ ~r.threw /\ r.commands = 1
           /\ raw \in {"nonzero", "throw", "badjson"} => ~r.present /\ r.digest = NoDigest
           /\ raw = "ok" => r.present /\ r.digest = Digests[i]

C35_SnapshotCarriesKeyDigest ==
  \A p \in Procs :
    (manifest[p] # NoDigest /\ manifestCacheKey(p) \in DOMAIN cache) =>
      /\ cache[manifestCacheKey(p)].kind = "manifest"
      /\ cache[manifestCacheKey(p)].dig = manifest[p]

\* C35: while the registry has not moved a tag during the run, and with every
\* entry of the store written by an earlier run of the action, no processor
\* takes the digest-mismatch branch (a pull after a cache hit), and the
\* manifest snapshot under a key carries the digest the key was derived from.
C35_NoMismatchWithoutRegistryChange ==
  /\ C35_SnapshotCarriesKeyDigest
  /\ regUpdates = 0 =>
       \A p \in Procs :
         /\ ~tookMismatchBranch(p)
         /\ tarHit[p] = "hit" => Calls(p, "pull") = 0

\* The validation of a cache hit ran and lacked one of the two manifests: the
\* snapshot could not be read, or the remote inspection returned nothing.
C36_Case(p) ==
  /\ ~skipLatestCheck /\ manifestHit[p] = "hit" /\ compared[p].read
  /\ ~compared[p].cachedPresent \/ ~compared[p].remotePresent

\* C36: on a cache hit with verification enabled and a manifest snapshot
\* restored, when the snapshot cannot be read or the fresh remote inspection
\* returns nothing, the cache is trusted: the processor is done with
\* success=true, restoredFromCache=true, and no pull is invoked.
C36_MissingDataTrustsCache ==
  \A p \in Procs :
    C36_Case(p) =>
      /\ Done(p) /\ Succeeded(p, "load") = 1
      /\ result[p].success /\ result[p].restoredFromCache /\ result[p].error = ""
      /\ result[p].digest = manifest[p] /\ result[p].cacheKey = imageCacheKey(p)
      /\ Calls(p, "pull") = 0 /\ Saves(p) = 0

\* The snapshot was read and the remote inspection of the validation returned
\* nothing, after the first inspection had resolved the digest.
C36_Witness ==
  \E p \in Procs :
    /\ C36_Case(p) /\ compared[p].cachedPresent /\ ~compared[p].remotePresent
    /\ Succeeded(p, "inspectRemote") = 1 /\ Failed(p, "inspectRemoteForValidation") = 1
    /\ Done(p) /\ runPc = "done" /\ result[p].restoredFromCache

\* C37: the prefix restore of the degraded fallback delivers an image archive
\* to be loaded, never a manifest snapshot: the entry it matched is an
\* archive, and so is the file it wrote at the fallback path.
C37_FallbackDeliversArchive ==
  \A p \in Procs :
    Succeeded(p, "restoreFallback") >= 1 =>
      /\ cache[matched[p]].kind = "image"
      /\ FileAt(fallbackTarPath(p)).kind = "image"

\* C38: every outcome processService returns has restoredFromCache only with
\* success, an error reason exactly when success is false, the image string
\* it was called with, and, once the keys were derived (a digest was
\* resolved), the derived image cache key and the digest resolved at the
\* start, the outcome of a failed load of a cache hit included.
C38_OutcomeInvariants ==
  \A p \in Procs :
    Done(p) =>
      /\ result[p].restoredFromCache => result[p].success
      /\ result[p].error # "" <=> ~result[p].success
      /\ result[p].imageName = completeImageName(p)
      /\ manifest[p] # NoDigest =>
           /\ result[p].cacheKey = imageCacheKey(p)
           /\ result[p].digest = manifest[p]
      /\ manifest[p] = NoDigest =>
           /\ result[p].digest = NoDigest
           /\ result[p].cacheKey = (IF result[p].success THEN matched[p] ELSE <<>>)

\* A cache hit whose load failed returned the derived key and the digest,
\* with its error.
C38_Witness ==
  \E p \in Procs :
    /\ Done(p) /\ tarHit[p] = "hit" /\ Failed(p, "load") = 1
    /\ result[p].cacheKey = imageCacheKey(p) /\ result[p].cacheKey # <<>>
    /\ result[p].digest = manifest[p] /\ manifest[p] # NoDigest
    /\ result[p].error = "Failed to load image from cache"

\* A step of the processor of the p-th image, if the batch has one.
ProcStep(p) == p \in Procs /\ StepOf(p)

\* Two images processed concurrently, the registry at rest.
LiveBatches == { <<Service(ImgDb, NoPlatform), Service(ImgApp, LinuxArm64)>> }
InitLive == InitOf(LiveBatches) /\ discovery = NoDiscovery

NextLive ==
  \/ RunStart
  \/ \E p \in Procs : ResolveDigest(p)
  \/ \E p \in Procs : FallbackRestore(p)
  \/ \E p \in Procs : FallbackLoad(p)
  \/ \E p \in Procs : FallbackInspect(p)
  \/ \E p \in Procs : RestoreArchive(p)
  \/ \E p \in Procs : RestoreManifest(p)
  \/ \E p \in Procs : Pull(p)
  \/ \E p \in Procs : VerifyDigest(p)
  \/ \E p \in Procs : SaveTar(p)
  \/ \E p \in Procs : SaveManifest(p)
  \/ \E p \in Procs : SaveCache(p)
  \/ \E p \in Procs : InspectLocal(p)
  \/ \E p \in Procs : Load(p)
  \/ \E p \in Procs : HitInspect(p)
  \/ \E p \in Procs : Validate(p)
  \/ \E p \in Procs : HitPull(p)

\* Every call returning: run starts its processors, and a processor that can
\* take its next step eventually takes it.
SpecLive ==
  /\ InitLive /\ [][NextLive]_vars
  /\ WF_vars(RunStart) /\ WF_vars(ProcStep(1)) /\ WF_vars(ProcStep(2))

\* How many outcomes processor p has returned.
C39_Returned(p) == Cardinality({i \in 1..Len(completed) : completed[i] = p})

\* Every processor has ended with one outcome and the coordinator has returned
\* with one outcome per image.
C39_AllEnded ==
  /\ runPc = "done" /\ Len(outcomes) = Len(targetImages)
  /\ \A p \in Procs : Done(p) /\ C39_Returned(p) = 1 /\ result[p] # NoResult

\* C39: every call returning, every processService invocation eventually ends
\* with exactly one outcome, and the coordinator returns once all processors
\* have ended, whether they succeeded or failed; nothing runs after that.
C39_Terminates == <>[]C39_AllEnded

\* The coordinator returned after one image failed and the other succeeded.
C39_Witness ==
  /\ C39_AllEnded
  /\ \E p, q \in Procs : ~result[p].success /\ result[q].success

\* C40: when run finds no image (no service found or all excluded, and no
\* additional image), it starts no processor, and once past its start it has
\* returned: the all-from-cache output is false, the image list is empty,
\* nothing was pulled, loaded or stored, and the run is not marked failed.
C40_EmptyRunReportsNoHit ==
  /\ targetImagesOf(<<>>, <<>>) = <<>>
  /\ Len(targetImages) = 0 =>
       /\ Procs = {} /\ pc = <<>> /\ log = <<>> /\ result = <<>> /\ completed = <<>>
       /\ runPc \in {"init", "done"}
       /\ runPc = "done" =>
            /\ ~cacheHitOutput /\ outcomes = <<>>
            /\ DOMAIN files = {} /\ DOMAIN localImages = {}

\* A run without images has returned.
C40_Witness == Len(targetImages) = 0 /\ runPc = "done" /\ ~cacheHitOutput /\ pc = <<>>

====
